---- MODULE Spec2Model ----
(***************************************************************************)
(* Model of uk_company_scraper_hybrid.py: the Streamlit session workflow   *)
(* of main(), and the extraction pipeline of                               *)
(* HybridCompanyRegistryScraper.create_zip_file (registry client, document *)
(* locator, download manager, archive builder).                            *)
(*                                                                         *)
(* Python strings are TLA+ strings; the str methods the code uses (lower,  *)
(* in, startswith, strip, isdigit, int) are computed character by          *)
(* character.  Python dicts are functions from keys to values, the empty   *)
(* dict being the function with the empty domain.                          *)
(***************************************************************************)
EXTENDS Naturals, Sequences, FiniteSets, TLC

VARIABLES
    env,            \* process environment and the remote listing's size
    session_state,  \* st.session_state
    page,           \* what the last run of the script rendered
    pc,             \* position of the script
    scraper,        \* the HybridCompanyRegistryScraper of the running extraction
    resp,           \* the response the pipeline has just processed
    trace           \* requests and sleeps of the current run of the script

vars == <<env, session_state, page, pc, scraper, resp, trace>>

-----------------------------------------------------------------------------
(* Bounds of the model *)

\* listing pages the site serves with arbitrary content
MaxSitePages == 2
\* hyperlinks on one listing page
MaxAnchors == 2
\* document links the site lists over all its pages
MaxSiteDocs == 3
\* the filings a filing-history body holds at most, in the specification of the renderer
MaxItems == 17

-----------------------------------------------------------------------------
(* Python str *)

Char(s, i) == SubSeq(s, i, i)

UpperCase == "ABCDEFGHIJKLMNOPQRSTUVWXYZ"
LowerCase == "abcdefghijklmnopqrstuvwxyz"

LowerChar(c) ==
    IF \E i \in 1..Len(UpperCase) : Char(UpperCase, i) = c
    THEN Char(LowerCase, CHOOSE i \in 1..Len(UpperCase) : Char(UpperCase, i) = c)
    ELSE c

\* str.lower(), one half of the string after the other
RECURSIVE lower(_)
lower(s) ==
    IF Len(s) <= 1 THEN LowerChar(s)
    ELSE lower(SubSeq(s, 1, Len(s) \div 2)) \o lower(SubSeq(s, Len(s) \div 2 + 1, Len(s)))

\* Python's  sub in s
In(sub, s) ==
    \E i \in 1..(Len(s) + 1) :
        /\ i + Len(sub) - 1 <= Len(s)
        /\ SubSeq(s, i, i + Len(sub) - 1) = sub

startswith(s, prefix) == Len(prefix) <= Len(s) /\ SubSeq(s, 1, Len(prefix)) = prefix

RECURSIVE lstrip(_)
lstrip(s) == IF s # "" /\ Char(s, 1) = " " THEN lstrip(SubSeq(s, 2, Len(s))) ELSE s

RECURSIVE rstrip(_)
rstrip(s) == IF s # "" /\ Char(s, Len(s)) = " " THEN rstrip(SubSeq(s, 1, Len(s) - 1)) ELSE s

strip(s) == rstrip(lstrip(s))

AsciiDigits == "0123456789"

IsAsciiDigit(c) == \E i \in 1..Len(AsciiDigits) : Char(AsciiDigits, i) = c

\* characters str.isdigit accepts and int() rejects (superscript digits)
SuperscriptDigits == "²³¹"

IsSuperscriptDigit(c) == \E i \in 1..Len(SuperscriptDigits) : Char(SuperscriptDigits, i) = c

isdigit(s) ==
    /\ s # ""
    /\ \A i \in 1..Len(s) : IsAsciiDigit(Char(s, i)) \/ IsSuperscriptDigit(Char(s, i))

DigitValue(c) == (CHOOSE i \in 1..Len(AsciiDigits) : Char(AsciiDigits, i) = c) - 1

\* int(s) raises ValueError
IntRaises(s) == s = "" \/ \E i \in 1..Len(s) : ~IsAsciiDigit(Char(s, i))

RECURSIVE int(_)
int(s) == IF Len(s) = 1 THEN DigitValue(s)
          ELSE 10 * int(SubSeq(s, 1, Len(s) - 1)) + DigitValue(Char(s, Len(s)))

\* Python's  str(n)  of an f-string
str(n) == ToString(n)

-----------------------------------------------------------------------------
(* Python dict *)

EmptyDict == [k \in {} |-> ""]

Get(d, key, default) == IF key \in DOMAIN d THEN d[key] ELSE default

-----------------------------------------------------------------------------
(* The listing site: the hyperlinks a filing-history page may carry *)

\* a document link; its text goes over two lines, as the text of an element with a
\* nested element does
DocRel == [href |-> "/filing-history/A/document?format=pdf&download=0",
           text |-> " View PDF\n(3 pages) "]
DocAbs == [href |-> "https://files.example/B.PDF", text |-> "Accounts"]
DocOther == [href |-> "document.html", text |-> "View PDF"]
Plain == [href |-> "/company/overview", text |-> "Overview"]
NextLink == [href |-> "/filing-history/more", text |-> "Next"]
Superscript == [href |-> "#note", text |-> "²"]
ParamLink(k) == [href |-> "/filing-history?page=" \o str(k), text |-> "Last"]
NumberLink(k) == [href |-> "#", text |-> " " \o str(k)]

PageAnchors(p) ==
    {DocRel, DocAbs, DocOther, Plain, NextLink, Superscript,
     ParamLink(p + 1), ParamLink(10 * (p + 1)), NumberLink(p + 1), NumberLink(p)}

\* the hyperlinks of a page of a regular site: site-relative document links, a "Next"
\* link, a link to the next page, a footnote mark
RegularAnchors(p) == {DocRel, NextLink, Superscript, ParamLink(p + 1)}

\* hyperlinks of other forms: a document named by its text alone, an absolute target
\* whose scheme is written in capitals, a relative path that begins with "http"
TextOnly == [href |-> "/filing/123", text |-> "  VIEW PDF "]
DocCapitals == [href |-> "HTTPS://files.example/C.pdf", text |-> "Report"]
DocPath == [href |-> "httpdocs/report.pdf", text |-> "Report"]

OddAnchors == {TextOnly, DocCapitals, DocPath}

\* the hyperlinks of a one-page listing: none of them is a continuation signal
LinkForms == {DocRel, DocAbs, DocOther, Plain} \cup OddAnchors

SeqsUpTo(S, n) == UNION {[1..k -> S] : k \in 0..n}

-----------------------------------------------------------------------------
(* Document Locator: one listing page *)

web_base == "https://find-and-update.company-information.service.gov.uk"

\* line 182: the markers of a document link
IsCandidate(link) ==
    \/ In("pdf", lower(link.href))
    \/ In("view pdf", lower(strip(link.text)))
    \/ In("document", lower(link.href))

\* LinkOf that tags a link with the number of pages fetched before its page
LinkOfPagesBefore(link, page_num) ==
    IF ~IsCandidate(link) THEN <<>>
    ELSE IF startswith(link.href, "/")
         THEN <<[url |-> web_base \o link.href, description |-> strip(link.text),
                 page |-> page_num - 1]>>
    ELSE IF ~startswith(link.href, "http") THEN <<>>
    ELSE <<[url |-> link.href, description |-> strip(link.text), page |-> page_num - 1]>>

\* lines 179-187: the links one anchor adds to page_pdf_links
LinkOf(link, page_num) ==
    IF ~IsCandidate(link) THEN <<>>
    ELSE IF startswith(link.href, "/")
         THEN <<[url |-> web_base \o link.href, description |-> strip(link.text), page |-> page_num]>>
    ELSE IF ~startswith(link.href, "http") THEN <<>>
    ELSE <<[url |-> link.href, description |-> strip(link.text), page |-> page_num]>>

\* line 167
max_pages == 20

\* the page numbers a scan can ask for, and the one after them
ListingPages == 1..(max_pages + 1)

\* LinkOf of every hyperlink the site can serve, computed once
Links == [p \in ListingPages |-> [link \in PageAnchors(p) \cup OddAnchors |-> LinkOf(link, p)]]

\* lines 178-187: page_pdf_links of a page
RECURSIVE PagePdfLinks(_, _)
PagePdfLinks(body, page_num) ==
    IF body = <<>> THEN <<>>
    ELSE Links[page_num][Head(body)] \o PagePdfLinks(Tail(body), page_num)

\* lines 196-198 for one pagination link: "True", "False", or "raise" when int() raises
SignalOf(pag_link, page_num) ==
    LET href == pag_link.href
        text == lower(strip(pag_link.text))
    IN  IF In("next", text) THEN "True"
        ELSE IF In("page=" \o str(page_num + 1), href) THEN "True"
        ELSE IF ~isdigit(text) THEN "False"
        ELSE IF IntRaises(text) THEN "raise"
        ELSE IF int(text) > page_num THEN "True" ELSE "False"

\* SignalOf, and line 203, of every hyperlink the site can serve, computed once
Signals ==
    [p \in ListingPages |-> [link \in PageAnchors(p) \cup OddAnchors |-> SignalOf(link, p)]]

NextPageInHref(link, page_num) == In("page=" \o str(page_num + 1), link.href)

NextPageHrefs == {<<p, link>> \in ListingPages \X UNION {PageAnchors(q) : q \in ListingPages} :
                     link \in PageAnchors(p) /\ NextPageInHref(link, p)}

\* lines 193-200: the first pass over the page's links
RECURSIVE FirstPass(_, _)
FirstPass(pagination_links, page_num) ==
    IF pagination_links = <<>> THEN "False"
    ELSE LET r == Signals[page_num][Head(pagination_links)]
         IN  IF r = "False" THEN FirstPass(Tail(pagination_links), page_num) ELSE r

\* lines 201-205: the second pass, taken when the first found nothing
SecondPass(pagination_links, page_num) ==
    \E i \in 1..Len(pagination_links) : <<page_num, pagination_links[i]>> \in NextPageHrefs

\* lines 191-207: has_next_page after both passes ("raise": the exception left the loop)
HasNextPage(body, page_num) ==
    LET first == FirstPass(body, page_num)
    IN  IF first # "False" THEN first
        ELSE IF SecondPass(body, page_num) THEN "True" ELSE "False"

-----------------------------------------------------------------------------
(* Archive Builder: the text sections *)

RECURSIVE Repeat(_, _)
Repeat(s, n) == IF n = 0 THEN "" ELSE s \o Repeat(s, n - 1)

RECURSIVE Join(_, _)
Join(sep, parts) ==
    IF parts = <<>> THEN ""
    ELSE IF Len(parts) = 1 THEN parts[1]
    ELSE parts[1] \o sep \o Join(sep, Tail(parts))

AddressFields == <<"address_line_1", "address_line_2", "locality", "region", "postal_code", "country">>

RECURSIVE AddressParts(_, _)
AddressParts(addr, fields) ==
    IF fields = <<>> THEN <<>>
    ELSE (IF Head(fields) \in DOMAIN addr /\ addr[Head(fields)] # ""
          THEN <<addr[Head(fields)]>> ELSE <<>>) \o AddressParts(addr, Tail(fields))

\* "label: value\n" when the key is present, nothing otherwise
Optional(d, key, label) == IF key \in DOMAIN d THEN label \o d[key] \o "\n" ELSE ""

DateOfBirth(d) ==
    IF "date_of_birth" \in DOMAIN d
    THEN LET dob == d["date_of_birth"]
         IN  "  Date of Birth: " \o (IF "month" \in DOMAIN dob THEN str(dob["month"]) ELSE "")
                 \o "/" \o (IF "year" \in DOMAIN dob THEN str(dob["year"]) ELSE "") \o "\n"
    ELSE ""

Address(d, label) ==
    IF "address" \in DOMAIN d
    THEN label \o Join(", ", AddressParts(d["address"], AddressFields)) \o "\n"
    ELSE ""

RECURSIVE Lines(_, _)
Lines(prefix, items) ==
    IF items = <<>> THEN "" ELSE prefix \o Head(items) \o "\n" \o Lines(prefix, Tail(items))

\* RegisteredOfficeLine that leaves the line empty when the record has no address
RegisteredOfficeLineBlank(data) ==
    IF "registered_office_address" \in DOMAIN data
    THEN "Registered Office Address: "
         \o Join(", ", AddressParts(data["registered_office_address"], AddressFields)) \o "\n"
    ELSE "\n"

\* lines 235-241
RegisteredOfficeLine(data) ==
    IF "registered_office_address" \in DOMAIN data
    THEN "Registered Office Address: "
         \o Join(", ", AddressParts(data["registered_office_address"], AddressFields)) \o "\n"
    ELSE ""

\* lines 225-258
format_company_profile(data) ==
    IF data = EmptyDict THEN "=== COMPANY OVERVIEW ===\n\nNo data available from API\n"
    ELSE "=== COMPANY OVERVIEW ===\n\n"
         \o "Company Name: " \o Get(data, "company_name", "N/A") \o "\n"
         \o "Company Number: " \o Get(data, "company_number", "N/A") \o "\n"
         \o "Company Status: " \o Get(data, "company_status", "N/A") \o "\n"
         \o "Company Type: " \o Get(data, "type", "N/A") \o "\n"
         \o "Incorporated On: " \o Get(data, "date_of_creation", "N/A") \o "\n"
         \o "Jurisdiction: " \o Get(data, "jurisdiction", "N/A") \o "\n"
         \o RegisteredOfficeLine(data)
         \o (IF "sic_codes" \in DOMAIN data /\ data["sic_codes"] # <<>>
             THEN "\nNature of Business (SIC):\n" \o Lines("  ", data["sic_codes"])
             ELSE "")
         \o (IF "accounts" \in DOMAIN data
             THEN LET accounts == data["accounts"]
                  IN  "\n=== ACCOUNTS INFORMATION ===\n"
                      \o "Next Accounts Due: " \o Get(accounts, "next_due", "N/A") \o "\n"
                      \o "Next Made Up To: " \o Get(accounts, "next_made_up_to", "N/A") \o "\n"
                      \o "Last Accounts Made Up To: "
                      \o Get(Get(accounts, "last_accounts", EmptyDict), "made_up_to", "N/A") \o "\n"
             ELSE "")
         \o (IF "confirmation_statement" \in DOMAIN data
             THEN LET cs == data["confirmation_statement"]
                  IN  "\n=== CONFIRMATION STATEMENT ===\n"
                      \o "Next Statement Date: " \o Get(cs, "next_due", "N/A") \o "\n"
                      \o "Next Made Up To: " \o Get(cs, "next_made_up_to", "N/A") \o "\n"
                      \o "Last Made Up To: " \o Get(cs, "last_made_up_to", "N/A") \o "\n"
             ELSE "")

\* lines 266-288: one officer block
OfficerBlock(i, officer) ==
    "Officer " \o str(i) \o ":\n"
    \o "  Name: " \o Get(officer, "name", "N/A") \o "\n"
    \o "  Role: " \o Get(officer, "officer_role", "N/A") \o "\n"
    \o "  Appointed On: " \o Get(officer, "appointed_on", "N/A") \o "\n"
    \o Optional(officer, "resigned_on", "  Resigned On: ")
    \o Optional(officer, "nationality", "  Nationality: ")
    \o Optional(officer, "country_of_residence", "  Country of Residence: ")
    \o Optional(officer, "occupation", "  Occupation: ")
    \o DateOfBirth(officer)
    \o Address(officer, "  Address: ")
    \o "\n" \o Repeat("=", 50) \o "\n\n"

\* lines 297-319: one PSC block
PscBlock(i, psc) ==
    "PSC " \o str(i) \o ":\n"
    \o "  Name: " \o Get(psc, "name", "N/A") \o "\n"
    \o "  Kind: " \o Get(psc, "kind", "N/A") \o "\n"
    \o "  Notified On: " \o Get(psc, "notified_on", "N/A") \o "\n"
    \o Optional(psc, "nationality", "  Nationality: ")
    \o Optional(psc, "country_of_residence", "  Country of Residence: ")
    \o DateOfBirth(psc)
    \o (IF "natures_of_control" \in DOMAIN psc
        THEN "  Nature of Control:\n" \o Lines("    - ", psc["natures_of_control"])
        ELSE "")
    \o Address(psc, "  Address: ")
    \o "\n" \o Repeat("=", 50) \o "\n\n"

\* lines 328-341: one filing block
FilingBlock(i, filing) ==
    "Filing " \o str(i) \o ":\n"
    \o "  Date: " \o Get(filing, "date", "N/A") \o "\n"
    \o "  Description: " \o Get(filing, "description", "N/A") \o "\n"
    \o "  Category: " \o Get(filing, "category", "N/A") \o "\n"
    \o "  Type: " \o Get(filing, "type", "N/A") \o "\n"
    \o Optional(filing, "action_date", "  Action Date: ")
    \o (IF "pages" \in DOMAIN filing THEN "  Pages: " \o str(filing["pages"]) \o "\n" ELSE "")
    \o (IF "links" \in DOMAIN filing /\ "document_metadata" \in DOMAIN filing["links"]
        THEN "  Document Available: Yes\n"
        ELSE "  Document Available: No\n")
    \o "\n" \o Repeat("-", 40) \o "\n\n"

\* enumerate(items, 1) of the three record lists
RECURSIVE Blocks(_, _, _)
Blocks(kind, items, i) ==
    IF i > Len(items) THEN ""
    ELSE (CASE kind = "officer" -> OfficerBlock(i, items[i])
            [] kind = "psc" -> PscBlock(i, items[i])
            [] kind = "filing" -> FilingBlock(i, items[i]))
         \o Blocks(kind, items, i + 1)

\* lines 260-289
format_officers(data) ==
    IF data = EmptyDict \/ "items" \notin DOMAIN data
    THEN "=== OFFICERS INFORMATION ===\n\nNo officers data available\n"
    ELSE "=== OFFICERS INFORMATION ===\n\n"
         \o "Total Officers: " \o str(Get(data, "total_results", 0)) \o "\n\n"
         \o Blocks("officer", data["items"], 1)

\* lines 291-320
format_psc(data) ==
    IF data = EmptyDict \/ "items" \notin DOMAIN data
    THEN "=== PERSONS WITH SIGNIFICANT CONTROL ===\n\nNo PSC data available\n"
    ELSE "=== PERSONS WITH SIGNIFICANT CONTROL ===\n\n"
         \o "Total PSCs: " \o str(Get(data, "total_results", 0)) \o "\n\n"
         \o Blocks("psc", data["items"], 1)

\* format_filing_history without the slice of line 327: every item is rendered
format_filing_historyAll(data) ==
    IF data = EmptyDict \/ "items" \notin DOMAIN data
    THEN "=== FILING HISTORY ===\n\nNo filing history available\n"
    ELSE "=== FILING HISTORY ===\n\n"
         \o "Total Filings: " \o str(Get(data, "total_count", 0)) \o "\n\n"
         \o Blocks("filing", data["items"], 1)

\* lines 322-342
format_filing_history(data) ==
    IF data = EmptyDict \/ "items" \notin DOMAIN data
    THEN "=== FILING HISTORY ===\n\nNo filing history available\n"
    ELSE "=== FILING HISTORY ===\n\n"
         \o "Total Filings: " \o str(Get(data, "total_count", 0)) \o "\n\n"
         \o Blocks("filing", SubSeq(data["items"], 1, IF Len(data["items"]) < 15 THEN Len(data["items"]) ELSE 15), 1)

-----------------------------------------------------------------------------
(* The structured API: what each endpoint answers with status 200 *)

ProfileJson(company_id) ==
    [company_name |-> "TESCO PLC", company_number |-> company_id, company_status |-> "active"]

OfficersJson ==
    [total_results |-> 1,
     items |-> <<[name |-> "MURPHY, Ken", officer_role |-> "director",
                  appointed_on |-> "2020-10-01", date_of_birth |-> [month |-> 6, year |-> 1966]]>>]

PscJson ==
    [total_results |-> 1,
     items |-> <<[name |-> "Holdings Ltd", kind |-> "corporate-entity-person-with-significant-control",
                  natures_of_control |-> <<"ownership-of-shares-75-to-100-percent">>]>>]

FilingJson ==
    [total_count |-> 3,
     items |-> <<[date |-> "2024-05-01", description |-> "accounts-with-accounts-type-group",
                  category |-> "accounts", type |-> "AA", pages |-> 200,
                  links |-> [document_metadata |-> "https://document-api/1"]],
                 [date |-> "2024-04-01", description |-> "confirmation-statement", type |-> "CS01"],
                 [date |-> "2024-03-01", description |-> "resolution", category |-> "resolution"]>>]

-----------------------------------------------------------------------------
(* st.session_state *)

\* Python's None, for zip_data
None == <<>>

Put(d, key, value) == [k \in DOMAIN d \cup {key} |-> IF k = key THEN value ELSE d[k]]

\* lines 488-491: del st.session_state[key] for every key not kept
Keep(d, keys) == [k \in DOMAIN d \cap keys |-> d[k]]

\* lines 52-65: the keys the script creates at the top of every run
Defaults ==
    [search_results |-> <<>>, search_term |-> "", extraction_in_progress |-> FALSE,
     extraction_complete |-> FALSE, zip_data |-> None, file_count |-> 0,
     last_search_term |-> ""]

InitKeys(d) == [k \in DOMAIN d \cup DOMAIN Defaults |-> IF k \in DOMAIN d THEN d[k] ELSE Defaults[k]]

\* lines 27, 458: check_password() lets the run continue
PasswordCorrect(d) == Get(d, "password_correct", FALSE)

-----------------------------------------------------------------------------
(* Inputs *)

Passwords == {"secret", "guess"}
SearchTerms == {"tesco"}
CompanyIds == {"00006245", "SC534841"}

\* the candidate summaries a search returns
Summary(company_number) ==
    [title |-> "TESCO " \o company_number, company_number |-> company_number,
     company_status |-> "active", address_snippet |-> "Welwyn Garden City"]

SearchItems == {<<>>, <<Summary("00006245"), Summary("SC534841")>>}

\* a response: its status code, or "raise" when the request raised (timeout, no route)
ApiOutcomes == {"200", "404", "401", "raise"}
WebOutcomes == {"200", "503", "raise"}

-----------------------------------------------------------------------------
(* The rendered page and the scraper object *)

\* what a run rendered: the view, whether the logout button is on it, the number of
\* "Extract Data" buttons, and the download button's data and the file count shown
Page(view, logout, buttons, data, count) ==
    [view |-> view, logout |-> logout, extract_buttons |-> buttons,
     data |-> data, file_count |-> count]

NoPage == Page("none", FALSE, 0, None, 0)

\* os.path.join and os.path.basename, for a directory and a name without a trailing slash
join(dir, name) == dir \o "/" \o name

\* the position of the last slash of `path` at or before position k, 0 when there is none
RECURSIVE LastSlash(_, _)
LastSlash(path, k) == IF k = 0 \/ Char(path, k) = "/" THEN k ELSE LastSlash(path, k - 1)

basename(path) == SubSeq(path, LastSlash(path, Len(path)) + 1, Len(path))

NoScraper ==
    [company_id |-> "", temp_dir |-> "", dirs |-> 0, files |-> EmptyDict,
     company_profile |-> EmptyDict, officers_data |-> EmptyDict, psc_data |-> EmptyDict,
     filing_history_data |-> EmptyDict,
     all_pdf_links |-> <<>>, page_num |-> 0, pdf_links |-> <<>>, i |-> 0,
     attempts |-> <<>>, pdf_files |-> <<>>, pdf_log |-> "", zip_path |-> "", count |-> 0]

\* lines 110-112: mkdtemp makes a new directory; dirs counts the directories the
\* scraper has made (the random part of the name is left out)
create_temp_directory(sc) ==
    [sc EXCEPT !.temp_dir = "/tmp/company_" \o sc.company_id \o "_", !.dirs = sc.dirs + 1]

\* create_zip_file that makes a directory of its own
EnsureTempDirAlways(sc) == create_temp_directory(sc)

\* lines 345-346
EnsureTempDir(sc) == IF sc.temp_dir = "" THEN create_temp_directory(sc) ELSE sc

\* a scraper constructed for a fixed company, whatever company was selected
NewScraperOfFirstCompany(company_id) ==
    create_temp_directory([NoScraper EXCEPT !.company_id = "00006245"])

\* lines 68-95, 507-508: the constructor, then create_temp_directory
NewScraper(company_id) == create_temp_directory([NoScraper EXCEPT !.company_id = company_id])

\* the response the pipeline has just processed: its status and, for a listing page,
\* the page number, the number of document links found on it, the continuation signals
\* it carries, whether processing it raised, and its page number again when it and
\* every page before it had exactly one document link and a "next" link (0 otherwise)
NoResp == [page |-> 0, status |-> "", cands |-> 0, next |-> FALSE, param |-> FALSE,
           higher |-> FALSE, raised |-> FALSE, streak |-> 0]

Get_(url) == <<"GET", url>>
Sleep(ds) == <<"sleep", ds>>

api_base == "https://api.companieshouse.gov.uk"

-----------------------------------------------------------------------------
(* Initial state: a new browser session, before the first run of the script *)

Init ==
    /\ env \in [SCRAPER_PASSWORD : {"", "secret"}, COMPANIES_HOUSE_API_KEY : {"", "key"},
                site_pages : {MaxSitePages}, site_docs : {MaxSiteDocs}, site_mix : {FALSE}]
    /\ session_state = EmptyDict
    /\ page = NoPage
    /\ pc = "rerun"
    /\ scraper = NoScraper
    /\ resp = NoResp
    /\ trace = <<>>

-----------------------------------------------------------------------------
(* A run of the script with no widget event: the first run, the run after  *)
(* st.rerun(), and the run the host starts for a download click             *)

Runnable == pc \in {"rerun", "ready"}

\* lines 27-45: check_password() shows the login form, or stops without a password
RunLogin ==
    /\ Runnable
    /\ ~PasswordCorrect(InitKeys(session_state))
    /\ session_state' = InitKeys(session_state)
    /\ page' = IF env.SCRAPER_PASSWORD = "" THEN Page("stopped", FALSE, 0, None, 0)
               ELSE Page("login", FALSE, 0, None, 0)
    /\ pc' = "ready"
    /\ trace' = <<>>
    /\ UNCHANGED <<env, scraper, resp>>

\* RunComplete without the check of line 474: the pipeline is entered again
RunCompleteMut ==
    LET ss == InitKeys(session_state)
    IN  /\ Runnable
        /\ PasswordCorrect(ss)
        /\ ss.extraction_in_progress /\ ss.extraction_complete
        /\ session_state' = ss
        /\ page' = Page("extracting", TRUE, 0, None, 0)
        /\ pc' = "test_api_connection"
        /\ scraper' = NewScraper(Get(ss, "selected_company", ""))
        /\ trace' = <<>>
        /\ UNCHANGED <<env, resp>>

\* lines 470-503: the extraction is complete, the download is offered
RunComplete ==
    LET ss == InitKeys(session_state)
    IN  /\ Runnable
        /\ PasswordCorrect(ss)
        /\ ss.extraction_in_progress /\ ss.extraction_complete
        /\ session_state' = ss
        /\ page' = Page("complete", TRUE, 0, ss.zip_data, ss.file_count)
        /\ pc' = "ready"
        /\ trace' = <<>>
        /\ UNCHANGED <<env, scraper, resp>>

\* the extraction run with lines 70-73 left out of the constructor
RunExtractWithoutKey ==
    LET ss == InitKeys(session_state)
    IN  /\ Runnable
        /\ PasswordCorrect(ss)
        /\ ss.extraction_in_progress /\ ~ss.extraction_complete
        /\ session_state' = ss
        /\ trace' = <<>>
        /\ page' = Page("extracting", TRUE, 0, None, 0)
        /\ pc' = "test_api_connection"
        /\ scraper' = NewScraper(Get(ss, "selected_company", ""))
        /\ UNCHANGED <<env, resp>>

\* lines 504-508: the extraction starts; the constructor stops the run without a key
RunExtract ==
    LET ss == InitKeys(session_state)
    IN  /\ Runnable
        /\ PasswordCorrect(ss)
        /\ ss.extraction_in_progress /\ ~ss.extraction_complete
        /\ session_state' = ss
        /\ trace' = <<>>
        /\ IF env.COMPANIES_HOUSE_API_KEY = ""
           THEN /\ page' = Page("stopped", TRUE, 0, None, 0)
                /\ pc' = "ready"
                /\ scraper' = NoScraper
           ELSE /\ page' = Page("extracting", TRUE, 0, None, 0)
                /\ pc' = "test_api_connection"
                /\ scraper' = NewScraper(Get(ss, "selected_company", ""))
        /\ UNCHANGED <<env, resp>>

\* lines 532-599: the search and direct-entry tabs
RunSearch ==
    LET ss == InitKeys(session_state)
    IN  /\ Runnable
        /\ PasswordCorrect(ss)
        /\ ~ss.extraction_in_progress
        /\ session_state' = [ss EXCEPT !.last_search_term = ss.search_term]
        /\ page' = Page("search", TRUE, Len(ss.search_results), None, 0)
        /\ pc' = "ready"
        /\ trace' = <<>>
        /\ UNCHANGED <<env, scraper, resp>>

-----------------------------------------------------------------------------
(* Runs of the script started by a widget event *)

\* Ready for a Complete page that still shows the widgets of the other views
ReadyAnywhere(view) == pc = "ready" /\ page.view \in {view, "complete"}

Ready(view) == pc = "ready" /\ page.view = view

\* lines 34-40: a password is typed into the field of key "password"; the host stores
\* the value under that key and calls the on_change callback
PasswordEntered(password) ==
    /\ Ready("login")
    /\ session_state' = Put(session_state, "password", password)
    /\ pc' = "password_entered"
    /\ page' = NoPage
    /\ trace' = <<>>
    /\ UNCHANGED <<env, scraper, resp>>

\* password_entered that takes every password once one is configured
password_enteredAny ==
    /\ pc = "password_entered"
    /\ session_state' =
          IF env.SCRAPER_PASSWORD # ""
          THEN Put(Keep(session_state, DOMAIN session_state \ {"password"}),
                   "password_correct", TRUE)
          ELSE Put(session_state, "password_correct", FALSE)
    /\ pc' = "rerun"
    /\ UNCHANGED <<env, page, scraper, resp, trace>>

\* lines 21-26: the callback compares the stored value with SCRAPER_PASSWORD, then the
\* script runs
password_entered ==
    /\ pc = "password_entered"
    /\ session_state' =
          IF env.SCRAPER_PASSWORD # ""
                /\ Get(session_state, "password", None) = env.SCRAPER_PASSWORD
          THEN Put(Keep(session_state, DOMAIN session_state \ {"password"}),
                   "password_correct", TRUE)
          ELSE Put(session_state, "password_correct", FALSE)
    /\ pc' = "rerun"
    /\ UNCHANGED <<env, page, scraper, resp, trace>>

\* logout() that deletes the authorization flag alone
LogoutKeepsData ==
    /\ pc = "ready" /\ page.logout
    /\ session_state' = [k \in DOMAIN session_state \ {"password_correct"} |-> session_state[k]]
    /\ pc' = "rerun"
    /\ page' = NoPage
    /\ trace' = <<>>
    /\ UNCHANGED <<env, scraper, resp>>

\* lines 47-50, 465-466, 502-503: logout() deletes every key and reruns
LogoutClick ==
    /\ pc = "ready" /\ page.logout
    /\ session_state' = EmptyDict
    /\ pc' = "rerun"
    /\ page' = NoPage
    /\ trace' = <<>>
    /\ UNCHANGED <<env, scraper, resp>>

\* StartAgainClick that also keeps the archive of the finished extraction
StartAgainKeepsArchive ==
    /\ Ready("complete")
    /\ session_state' = InitKeys(Keep(session_state, {"password_correct", "zip_data",
                                                      "file_count"}))
    /\ pc' = "rerun"
    /\ page' = NoPage
    /\ trace' = <<>>
    /\ UNCHANGED <<env, scraper, resp>>

\* lines 486-500
StartAgainClick ==
    /\ Ready("complete")
    /\ session_state' = InitKeys(Keep(session_state, {"password_correct"}))
    /\ pc' = "rerun"
    /\ page' = NoPage
    /\ trace' = <<>>
    /\ UNCHANGED <<env, scraper, resp>>

\* lines 97-108: search_companies, for a request that ended with outcome out
search_companies(out, items) == IF out = "200" THEN items ELSE <<>>

\* the "Search Companies" button without line 551: the term is not stored
SearchClickTermNotStored(search_term) ==
    LET ss == [session_state EXCEPT !.last_search_term = search_term]
    IN  /\ Ready("search")
        /\ \/ /\ search_term = ""
              /\ session_state' = ss
              /\ page' = Page("search", TRUE, Len(ss.search_results), None, 0)
              /\ pc' = "ready"
              /\ trace' = <<>>
           \/ /\ search_term # ""
              /\ env.COMPANIES_HOUSE_API_KEY = ""
              /\ session_state' = ss
              /\ page' = Page("stopped", TRUE, 0, None, 0)
              /\ pc' = "ready"
              /\ trace' = <<>>
           \/ /\ search_term # ""
              /\ env.COMPANIES_HOUSE_API_KEY # ""
              /\ \E out \in ApiOutcomes, items \in SearchItems :
                    session_state' = [ss EXCEPT !.search_results = search_companies(out, items)]
              /\ page' = NoPage
              /\ pc' = "rerun"
              /\ trace' = <<Get_(api_base \o "/search/companies?q=" \o search_term)>>
        /\ UNCHANGED <<env, scraper, resp>>

\* lines 536-555: the "Search Companies" button
SearchClick(search_term) ==
    LET ss == [session_state EXCEPT !.last_search_term = search_term]
    IN  /\ Ready("search")
        /\ \/ /\ search_term = ""
              /\ session_state' = ss
              /\ page' = Page("search", TRUE, Len(ss.search_results), None, 0)
              /\ pc' = "ready"
              /\ trace' = <<>>
           \/ /\ search_term # ""
              /\ env.COMPANIES_HOUSE_API_KEY = ""
              /\ session_state' = ss
              /\ page' = Page("stopped", TRUE, 0, None, 0)
              /\ pc' = "ready"
              /\ trace' = <<>>
           \/ /\ search_term # ""
              /\ env.COMPANIES_HOUSE_API_KEY # ""
              /\ \E out \in ApiOutcomes, items \in SearchItems :
                    session_state' = [ss EXCEPT !.search_results = search_companies(out, items),
                                                !.search_term = search_term]
              /\ page' = NoPage
              /\ pc' = "rerun"
              /\ trace' = <<Get_(api_base \o "/search/companies?q=" \o search_term)>>
        /\ UNCHANGED <<env, scraper, resp>>

\* lines 557-561
ClearResultsClick ==
    /\ Ready("search")
    /\ session_state' = [session_state EXCEPT !.search_results = <<>>, !.search_term = "",
                                              !.last_search_term = ""]
    /\ pc' = "rerun"
    /\ page' = NoPage
    /\ trace' = <<>>
    /\ UNCHANGED <<env, scraper, resp>>

\* lines 578-580, 594-596: an extraction is requested for company_number
StartExtraction(ss, company_number) ==
    Put(Put(Put(ss, "selected_company", company_number),
            "extraction_in_progress", TRUE), "extraction_complete", FALSE)

\* lines 564-581: the "Extract Data" button of candidate i
ExtractDataClick(i) ==
    /\ Ready("search")
    /\ i \in 1..page.extract_buttons
    /\ session_state' =
          StartExtraction([session_state EXCEPT !.last_search_term = session_state.search_term],
                          Get(session_state.search_results[i], "company_number", "Unknown"))
    /\ pc' = "rerun"
    /\ page' = NoPage
    /\ trace' = <<>>
    /\ UNCHANGED <<env, scraper, resp>>

\* lines 586-599: the direct-entry tab
DirectEntryClick(company_id) ==
    LET ss == [session_state EXCEPT !.last_search_term = session_state.search_term]
    IN  /\ Ready("search")
        /\ \/ /\ company_id = ""
              /\ session_state' = ss
              /\ page' = Page("search", TRUE, Len(ss.search_results), None, 0)
              /\ pc' = "ready"
           \/ /\ company_id # ""
              /\ session_state' = StartExtraction(ss, company_id)
              /\ page' = NoPage
              /\ pc' = "rerun"
        /\ trace' = <<>>
        /\ UNCHANGED <<env, scraper, resp>>

-----------------------------------------------------------------------------
(* Registry Client *)

CompanyUrl(company_id) == api_base \o "/company/" \o company_id

\* test_api_connection that takes any response for a connection
test_api_connectionMut(out) == out # "raise"

\* lines 114-120
test_api_connection(out) == out \in {"200", "404"}

\* ApiRecord that takes the body of any answered request for the record
ApiRecordAnyStatus(out, json) == IF out # "raise" THEN json ELSE EmptyDict

\* lines 122-162: the four record fetches return the parsed body or {}
ApiRecord(out, json) == IF out = "200" THEN json ELSE EmptyDict

\* lines 344-353: create_zip_file is entered; the connectivity pre-check, on whose
\* failure create_zip_file returns (None, 0)
TestApiConnection ==
    /\ pc = "test_api_connection"
    /\ scraper' = EnsureTempDir(scraper)
    /\ trace' = Append(trace, Get_(CompanyUrl(scraper.company_id)))
    /\ \E out \in ApiOutcomes :
          /\ pc' = IF test_api_connection(out) THEN "get_company_profile_api" ELSE "returned"
          /\ resp' = [NoResp EXCEPT !.status = out]
    /\ UNCHANGED <<env, session_state, page>>

\* lines 358-360
GetCompanyProfile ==
    /\ pc = "get_company_profile_api"
    /\ trace' = Append(trace, Get_(CompanyUrl(scraper.company_id)))
    /\ \E out \in ApiOutcomes :
          /\ scraper' = [scraper EXCEPT
                            !.company_profile = ApiRecord(out, ProfileJson(scraper.company_id))]
          /\ resp' = [NoResp EXCEPT !.status = out]
    /\ pc' = "get_officers_api"
    /\ UNCHANGED <<env, session_state, page>>

\* lines 362-366
GetOfficers ==
    /\ pc = "get_officers_api"
    /\ trace' = trace \o <<Get_(CompanyUrl(scraper.company_id) \o "/officers"), Sleep(6)>>
    /\ \E out \in ApiOutcomes :
          /\ scraper' = [scraper EXCEPT !.officers_data = ApiRecord(out, OfficersJson)]
          /\ resp' = [NoResp EXCEPT !.status = out]
    /\ pc' = "get_psc_api"
    /\ UNCHANGED <<env, session_state, page>>

\* GetPsc that hands over to the document locator without the filing-history fetch
GetPscThenScan ==
    /\ pc = "get_psc_api"
    /\ trace' = Append(trace, Get_(CompanyUrl(scraper.company_id)
                                       \o "/persons-with-significant-control"))
    /\ \E out \in ApiOutcomes :
          /\ scraper' = [scraper EXCEPT !.psc_data = ApiRecord(out, PscJson),
                                        !.all_pdf_links = <<>>, !.page_num = 1]
          /\ resp' = [NoResp EXCEPT !.status = out]
    /\ pc' = "get_pdf_links_scraping"
    /\ UNCHANGED <<env, session_state, page>>

\* lines 368-370
GetPsc ==
    /\ pc = "get_psc_api"
    /\ trace' = Append(trace, Get_(CompanyUrl(scraper.company_id)
                                       \o "/persons-with-significant-control"))
    /\ \E out \in ApiOutcomes :
          /\ scraper' = [scraper EXCEPT !.psc_data = ApiRecord(out, PscJson)]
          /\ resp' = [NoResp EXCEPT !.status = out]
    /\ pc' = "get_filing_history_api"
    /\ UNCHANGED <<env, session_state, page>>

\* lines 372-376, 165-167: the last record fetch; the locator starts at page 1
GetFilingHistory ==
    /\ pc = "get_filing_history_api"
    /\ trace' = trace \o <<Get_(CompanyUrl(scraper.company_id) \o "/filing-history"), Sleep(6)>>
    /\ \E out \in ApiOutcomes :
          /\ scraper' = [scraper EXCEPT !.filing_history_data = ApiRecord(out, FilingJson),
                                        !.all_pdf_links = <<>>, !.page_num = 1]
          /\ resp' = [NoResp EXCEPT !.status = out]
    /\ pc' = "get_pdf_links_scraping"
    /\ UNCHANGED <<env, session_state, page>>

-----------------------------------------------------------------------------
(* Document Locator: the scan *)

\* lines 170-173
ListingUrl(company_id, page_num) ==
    IF page_num = 1 THEN web_base \o "/company/" \o company_id \o "/filing-history"
    ELSE web_base \o "/company/" \o company_id \o "/filing-history?page=" \o str(page_num)

\* the pages the site may serve as page p when it has `left` documents left to list:
\* a site that mixes link forms does so on its first page, the other pages are
\* regular, and beyond its first MaxSitePages pages a site lists one document per page
Bodies(p, left) ==
    {body \in SeqsUpTo(IF env.site_mix /\ p = 1 THEN PageAnchors(p) ELSE RegularAnchors(p),
                       MaxAnchors) :
        /\ Len(PagePdfLinks(body, p)) <= left
        /\ p > MaxSitePages => Len(PagePdfLinks(body, p)) <= 1}

\* the page as the document describes it: a link whose text contains "next", a link
\* whose page parameter is k, a link whose text is a plain number above n
NextTexts == {link \in UNION {PageAnchors(q) : q \in ListingPages} : In("next", lower(link.text))}

HasNextText(body) == \E k \in 1..Len(body) : body[k] \in NextTexts

Encodes(href, k) ==
    \E j \in 1..Len(href) :
        LET param == "page=" \o str(k)
            end == j + Len(param)
        IN  /\ end - 1 <= Len(href)
            /\ SubSeq(href, j, end - 1) = param
            /\ j > 1 /\ Char(href, j - 1) \in {"?", "&"}
            /\ end > Len(href) \/ ~IsAsciiDigit(Char(href, end))

PageParams == [p \in ListingPages |-> {link \in PageAnchors(p) : Encodes(link.href, p + 1)}]

\* a link of page n whose target is page n + 1
HasPageParam(body, n) == \E j \in 1..Len(body) : body[j] \in PageParams[n]

IsPlainNumber(text) == text # "" /\ \A j \in 1..Len(text) : IsAsciiDigit(Char(text, j))

HigherNumbers ==
    [p \in ListingPages |->
        {link \in PageAnchors(p) : IsPlainNumber(strip(link.text)) /\ int(strip(link.text)) > p}]

HasHigherNumber(body, n) == \E j \in 1..Len(body) : body[j] \in HigherNumbers[n]

Observed(page_num, out, body, streak) ==
    [page |-> page_num, status |-> out, cands |-> Len(PagePdfLinks(body, page_num)),
     next |-> HasNextText(body), param |-> HasPageParam(body, page_num),
     higher |-> HasHigherNumber(body, page_num),
     raised |-> PagePdfLinks(body, page_num) # <<>> /\ HasNextPage(body, page_num) = "raise",
     streak |-> IF /\ out = "200" /\ streak = page_num - 1 /\ HasNextText(body)
                   /\ Len(PagePdfLinks(body, page_num)) = 1
                THEN page_num ELSE 0]

\* ScanStep without the cap of line 169: the loop goes on while there is a next page
ScanStepNoCap(sc, out, body) ==
    LET page_pdf_links == PagePdfLinks(body, sc.page_num)
        extended == [sc EXCEPT !.all_pdf_links = sc.all_pdf_links \o page_pdf_links]
    IN  IF out # "200" THEN [sc |-> sc, goes_on |-> FALSE]
        ELSE IF page_pdf_links = <<>> THEN [sc |-> sc, goes_on |-> FALSE]
        ELSE IF HasNextPage(body, sc.page_num) # "True" THEN [sc |-> extended, goes_on |-> FALSE]
        ELSE [sc |-> [extended EXCEPT !.page_num = sc.page_num + 1], goes_on |-> TRUE]

\* ScanStep that looks for a next page before it looks at the page's document links
ScanStepNextFirst(sc, out, body) ==
    LET page_pdf_links == PagePdfLinks(body, sc.page_num)
        extended == [sc EXCEPT !.all_pdf_links = sc.all_pdf_links \o page_pdf_links]
    IN  IF out # "200" THEN [sc |-> sc, goes_on |-> FALSE]
        ELSE IF HasNextPage(body, sc.page_num) # "True" THEN [sc |-> extended, goes_on |-> FALSE]
        ELSE [sc |-> [extended EXCEPT !.page_num = sc.page_num + 1],
              goes_on |-> sc.page_num + 1 <= max_pages]

\* ScanStep whose failure paths return an empty list
ScanStepDropsLinks(sc, out, body) ==
    LET page_pdf_links == PagePdfLinks(body, sc.page_num)
        extended == [sc EXCEPT !.all_pdf_links = sc.all_pdf_links \o page_pdf_links]
    IN  IF out # "200" THEN [sc |-> [sc EXCEPT !.all_pdf_links = <<>>], goes_on |-> FALSE]
        ELSE IF page_pdf_links = <<>> THEN [sc |-> sc, goes_on |-> FALSE]
        ELSE IF HasNextPage(body, sc.page_num) = "raise"
             THEN [sc |-> [sc EXCEPT !.all_pdf_links = <<>>], goes_on |-> FALSE]
        ELSE IF HasNextPage(body, sc.page_num) # "True" THEN [sc |-> extended, goes_on |-> FALSE]
        ELSE [sc |-> [extended EXCEPT !.page_num = sc.page_num + 1],
              goes_on |-> sc.page_num + 1 <= max_pages]

\* lines 169-209: one iteration of the loop, for the response `out` with page `body`.
\* The result is the scraper after the iteration and whether the loop goes on.
ScanStep(sc, out, body) ==
    LET page_pdf_links == PagePdfLinks(body, sc.page_num)
        extended == [sc EXCEPT !.all_pdf_links = sc.all_pdf_links \o page_pdf_links]
    IN  IF out # "200" THEN [sc |-> sc, goes_on |-> FALSE]
        ELSE IF page_pdf_links = <<>> THEN [sc |-> sc, goes_on |-> FALSE]
        ELSE IF HasNextPage(body, sc.page_num) # "True" THEN [sc |-> extended, goes_on |-> FALSE]
        ELSE [sc |-> [extended EXCEPT !.page_num = sc.page_num + 1],
              goes_on |-> sc.page_num + 1 <= max_pages]

\* the sleep of line 209 follows a page that has a next page
ScanTrace(sc, out, body) ==
    <<Get_(ListingUrl(sc.company_id, sc.page_num))>>
        \o (IF ScanStep(sc, out, body).sc.page_num # sc.page_num THEN <<Sleep(10)>> ELSE <<>>)

ScanPage ==
    /\ pc = "get_pdf_links_scraping"
    /\ \E out \in WebOutcomes :
       \E body \in IF out = "200" THEN Bodies(scraper.page_num,
                                              env.site_docs - Len(scraper.all_pdf_links))
                   ELSE {<<>>} :
          /\ out = "200" => scraper.page_num <= env.site_pages
          /\ scraper' = ScanStep(scraper, out, body).sc
          /\ pc' = IF ScanStep(scraper, out, body).goes_on
                   THEN "get_pdf_links_scraping" ELSE "scan_return"
          /\ resp' = Observed(scraper.page_num, out, body, resp.streak)
          /\ trace' = trace \o ScanTrace(scraper, out, body)
    /\ UNCHANGED <<env, session_state, page>>

\* lines 210-212, 379-387: the locator returns; the download loop starts
ScanReturn ==
    /\ pc = "scan_return"
    /\ scraper' = [scraper EXCEPT !.pdf_links = scraper.all_pdf_links, !.i = 0,
                                  !.pdf_files = <<>>, !.pdf_log = "\n=== PDF DOCUMENTS ===\n\n"]
    /\ pc' = IF scraper.all_pdf_links = <<>> THEN "write_files" ELSE "download_pdf"
    /\ resp' = NoResp
    /\ UNCHANGED <<env, session_state, page, trace>>

-----------------------------------------------------------------------------
(* Download Manager *)

\* the body the site serves for a document
DocBytes(url) == "%PDF " \o url

\* the name of line 388 without the number of the link
PdfNameWithoutNumber(n, company_id) == "filing_document_" \o company_id \o ".pdf"

\* line 388
PdfName(n, company_id) == "filing_document_" \o str(n) \o "_" \o company_id \o ".pdf"

\* lines 214-223: download_pdf writes the file when the status is 200
download_pdf(out) == out = "200"

\* DownloadStep that leaves the loop at the first failed download
DownloadStepMut(sc, out) ==
    LET pdf_info == sc.pdf_links[sc.i + 1]
        filename == PdfName(sc.i + 1, sc.company_id)
        pdf_path == join(sc.temp_dir, filename)
    IN  IF download_pdf(out)
        THEN [sc EXCEPT !.i = sc.i + 1,
                        !.attempts = Append(sc.attempts, pdf_info),
                        !.files = Put(sc.files, pdf_path, DocBytes(pdf_info.url)),
                        !.pdf_files = Append(sc.pdf_files, pdf_path),
                        !.pdf_log = sc.pdf_log \o "(v) Downloaded: " \o filename
                                        \o " (Page " \o str(pdf_info.page) \o ")\n"]
        ELSE [sc EXCEPT !.i = Len(sc.pdf_links),
                        !.attempts = Append(sc.attempts, pdf_info),
                        !.pdf_log = sc.pdf_log \o "(x) Failed: " \o pdf_info.description
                                        \o " (Page " \o str(pdf_info.page) \o ")\n"]

\* DownloadStep that numbers a document by the count of the documents stored so far
DownloadStepNumbersStored(sc, out) ==
    LET pdf_info == sc.pdf_links[sc.i + 1]
        filename == PdfName(Len(sc.pdf_files) + 1, sc.company_id)
        pdf_path == join(sc.temp_dir, filename)
    IN  IF download_pdf(out)
        THEN [sc EXCEPT !.i = sc.i + 1,
                        !.attempts = Append(sc.attempts, pdf_info),
                        !.files = Put(sc.files, pdf_path, DocBytes(pdf_info.url)),
                        !.pdf_files = Append(sc.pdf_files, pdf_path),
                        !.pdf_log = sc.pdf_log \o "(v) Downloaded: " \o filename
                                        \o " (Page " \o str(pdf_info.page) \o ")\n"]
        ELSE [sc EXCEPT !.i = sc.i + 1,
                        !.attempts = Append(sc.attempts, pdf_info),
                        !.pdf_log = sc.pdf_log \o "(x) Failed: " \o pdf_info.description
                                        \o " (Page " \o str(pdf_info.page) \o ")\n"]

\* lines 387-395: one iteration of the download loop, for a request that ended with out
\* (the check mark and the cross of the log lines are written (v) and (x))
DownloadStep(sc, out) ==
    LET pdf_info == sc.pdf_links[sc.i + 1]
        filename == PdfName(sc.i + 1, sc.company_id)
        pdf_path == join(sc.temp_dir, filename)
    IN  IF download_pdf(out)
        THEN [sc EXCEPT !.i = sc.i + 1,
                        !.attempts = Append(sc.attempts, pdf_info),
                        !.files = Put(sc.files, pdf_path, DocBytes(pdf_info.url)),
                        !.pdf_files = Append(sc.pdf_files, pdf_path),
                        !.pdf_log = sc.pdf_log \o "(v) Downloaded: " \o filename
                                        \o " (Page " \o str(pdf_info.page) \o ")\n"]
        ELSE [sc EXCEPT !.i = sc.i + 1,
                        !.attempts = Append(sc.attempts, pdf_info),
                        !.pdf_log = sc.pdf_log \o "(x) Failed: " \o pdf_info.description
                                        \o " (Page " \o str(pdf_info.page) \o ")\n"]

\* DownloadPdf that asks for a document again until it is served
DownloadPdfUntilServed ==
    /\ pc = "download_pdf"
    /\ \E out \in WebOutcomes :
          scraper' = IF download_pdf(out) THEN DownloadStep(scraper, out) ELSE scraper
    /\ trace' = trace \o <<Get_(scraper.pdf_links[scraper.i + 1].url), Sleep(10)>>
    /\ pc' = IF scraper'.i < Len(scraper.pdf_links) THEN "download_pdf" ELSE "write_files"
    /\ UNCHANGED <<env, session_state, page, resp>>

\* DownloadPdf with the sleep of line 395 inside the branch of a successful download
DownloadPdfSleepsAfterSuccess ==
    /\ pc = "download_pdf"
    /\ \E out \in WebOutcomes :
          /\ scraper' = DownloadStep(scraper, out)
          /\ trace' = trace \o <<Get_(scraper.pdf_links[scraper.i + 1].url)>>
                          \o (IF download_pdf(out) THEN <<Sleep(10)>> ELSE <<>>)
    /\ pc' = IF scraper'.i < Len(scraper.pdf_links) THEN "download_pdf" ELSE "write_files"
    /\ UNCHANGED <<env, session_state, page, resp>>

DownloadPdf ==
    /\ pc = "download_pdf"
    /\ \E out \in WebOutcomes : scraper' = DownloadStep(scraper, out)
    /\ trace' = trace \o <<Get_(scraper.pdf_links[scraper.i + 1].url), Sleep(10)>>
    /\ pc' = IF scraper'.i < Len(scraper.pdf_links) THEN "download_pdf" ELSE "write_files"
    /\ UNCHANGED <<env, session_state, page, resp>>

-----------------------------------------------------------------------------
(* Archive Builder *)

\* lines 426-432; the clock is not modelled
SummaryText(sc, files_created) ==
    "=== COMPANY DATA EXTRACTION SUMMARY ===\n\n"
    \o "Company ID: " \o sc.company_id \o "\n"
    \o "Extraction Date: 2024-01-01 00:00:00\n"
    \o "Method: Hybrid (Companies House API + Multi-Page Web Scraping)\n\n"
    \o "Files Created: " \o str(Len(files_created)) \o " text files\n"
    \o "PDFs Downloaded: " \o str(Len(sc.pdf_files)) \o "\n"
    \o "Pages Scraped: "
    \o str(IF sc.pdf_links # <<>>
           THEN CHOOSE m \in {sc.pdf_links[k].page : k \in 1..Len(sc.pdf_links)} :
                    \A k \in 1..Len(sc.pdf_links) : sc.pdf_links[k].page <= m
           ELSE 1)
    \o "\n"

\* lines 402, 408, 414, 420: the text of every record the API can answer, computed once
Rendered ==
    [overview |-> [data \in {EmptyDict} \cup {ProfileJson(id) : id \in CompanyIds} |->
                      format_company_profile(data)],
     officers |-> [data \in {EmptyDict, OfficersJson} |-> format_officers(data)],
     psc |-> [data \in {EmptyDict, PscJson} |-> format_psc(data)],
     filing_history |-> [data \in {EmptyDict, FilingJson} |-> format_filing_history(data)]]

\* lines 400-437: the five text files, in the order they are written
TextFiles(sc) ==
    LET id == sc.company_id
        four == <<[path |-> join(sc.temp_dir, id \o "_overview.txt"),
                   data |-> Rendered.overview[sc.company_profile]],
                  [path |-> join(sc.temp_dir, id \o "_officers.txt"),
                   data |-> Rendered.officers[sc.officers_data]],
                  [path |-> join(sc.temp_dir, id \o "_psc.txt"),
                   data |-> Rendered.psc[sc.psc_data]],
                  [path |-> join(sc.temp_dir, id \o "_filing_history.txt"),
                   data |-> Rendered.filing_history[sc.filing_history_data] \o sc.pdf_log]>>
    IN  Append(four, [path |-> join(sc.temp_dir, id \o "_summary.txt"),
                      data |-> SummaryText(sc, [k \in 1..4 |-> four[k].path])])

RECURSIVE WriteAll(_, _)
WriteAll(files, entries) ==
    IF entries = <<>> THEN files
    ELSE WriteAll(Put(files, Head(entries).path, Head(entries).data), Tail(entries))

\* the names of the five text files of the company `id`
TextNames(id) ==
    {id \o "_overview.txt", id \o "_officers.txt", id \o "_psc.txt",
     id \o "_filing_history.txt", id \o "_summary.txt"}

\* the paths the archive builder may pass to zipf.write for the company `id`
TempFiles(id) ==
    {join(NewScraper(id).temp_dir, name) :
        name \in TextNames(id) \cup {PdfName(n, id) : n \in 1..(max_pages + MaxSiteDocs)}}

\* the base name of each of these paths, computed once
BaseNames == [path \in UNION {TempFiles(id) : id \in CompanyIds} |-> basename(path)]

\* ZipEntries without the loop of lines 445-446: the documents are left out
ZipEntriesMut(files, files_created, pdf_files) ==
    [k \in 1..Len(files_created) |->
        [name |-> BaseNames[files_created[k]], data |-> files[files_created[k]]]]

\* ZipEntries that writes the documents before the text files
ZipEntriesDocumentsFirst(files, files_created, pdf_files) ==
    [k \in 1..(Len(files_created) + Len(pdf_files)) |->
        LET file_path == IF k <= Len(pdf_files) THEN pdf_files[k]
                         ELSE files_created[k - Len(pdf_files)]
        IN  [name |-> BaseNames[file_path], data |-> files[file_path]]]

\* lines 442-446: zipf.write(path, basename) for the text files, then for the documents
ZipEntries(files, files_created, pdf_files) ==
    [k \in 1..(Len(files_created) + Len(pdf_files)) |->
        LET file_path == IF k <= Len(files_created) THEN files_created[k]
                         ELSE pdf_files[k - Len(files_created)]
        IN  [name |-> BaseNames[file_path], data |-> files[file_path]]]

\* WriteFiles that returns (None, 0) when no document was downloaded
WriteFilesMut ==
    /\ pc = "write_files"
    /\ \E texts \in {TextFiles(scraper)} :
       \E files \in {WriteAll(scraper.files, texts)} :
          LET files_created == [k \in 1..Len(texts) |-> texts[k].path]
              zip_name == join(scraper.temp_dir, "company_" \o scraper.company_id \o "_data.zip")
          IN  /\ scraper' = IF scraper.pdf_files = <<>> THEN scraper
                            ELSE [scraper EXCEPT
                                    !.files = Put(files, zip_name,
                                                  ZipEntries(files, files_created, scraper.pdf_files)),
                                    !.zip_path = zip_name,
                                    !.count = Len(files_created) + Len(scraper.pdf_files)]
              /\ pc' = "returned"
    /\ UNCHANGED <<env, session_state, page, resp, trace>>

\* lines 400-451: the text files and the archive are written; create_zip_file returns
\* (zip_path, count)
WriteFiles ==
    /\ pc = "write_files"
    /\ \E texts \in {TextFiles(scraper)} :
       \E files \in {WriteAll(scraper.files, texts)} :
          LET files_created == [k \in 1..Len(texts) |-> texts[k].path]
              zip_name == join(scraper.temp_dir, "company_" \o scraper.company_id \o "_data.zip")
          IN  /\ scraper' = [scraper EXCEPT
                    !.files = Put(files, zip_name,
                                  ZipEntries(files, files_created, scraper.pdf_files)),
                    !.zip_path = zip_name,
                    !.count = Len(files_created) + Len(scraper.pdf_files)]
              /\ pc' = "returned"
    /\ UNCHANGED <<env, session_state, page, resp, trace>>

-----------------------------------------------------------------------------
(* main(): the end of an extraction *)

\* StoreResult that also ends the extraction, so that the next run shows the search tabs
StoreResultMut ==
    /\ pc = "returned"
    /\ scraper.zip_path # "" /\ scraper.zip_path \in DOMAIN scraper.files
    /\ session_state' = [session_state EXCEPT !.zip_data = scraper.files[scraper.zip_path],
                                              !.file_count = scraper.count,
                                              !.extraction_complete = TRUE,
                                              !.extraction_in_progress = FALSE]
    /\ scraper' = NoScraper
    /\ pc' = "rerun"
    /\ page' = NoPage
    /\ UNCHANGED <<env, resp, trace>>

\* StoreResult without line 515: the file count is not stored
StoreResultWithoutCount ==
    /\ pc = "returned"
    /\ scraper.zip_path # "" /\ scraper.zip_path \in DOMAIN scraper.files
    /\ session_state' = [session_state EXCEPT !.zip_data = scraper.files[scraper.zip_path],
                                              !.extraction_complete = TRUE]
    /\ scraper' = NoScraper
    /\ pc' = "rerun"
    /\ page' = NoPage
    /\ UNCHANGED <<env, resp, trace>>

\* lines 510-518: the archive is read into the session, the directory is removed
StoreResult ==
    /\ pc = "returned"
    /\ scraper.zip_path # "" /\ scraper.zip_path \in DOMAIN scraper.files
    /\ session_state' = [session_state EXCEPT !.zip_data = scraper.files[scraper.zip_path],
                                              !.file_count = scraper.count,
                                              !.extraction_complete = TRUE]
    /\ scraper' = NoScraper
    /\ pc' = "rerun"
    /\ page' = NoPage
    /\ UNCHANGED <<env, resp, trace>>

\* PackageFailed that keeps the error message in the session
PackageFailedKeepsError ==
    /\ pc = "returned"
    /\ ~(scraper.zip_path # "" /\ scraper.zip_path \in DOMAIN scraper.files)
    /\ session_state' = Put([session_state EXCEPT !.extraction_in_progress = FALSE],
                            "error", "Failed to create the data package. Please try again.")
    /\ page' = Page("failed", TRUE, 0, None, 0)
    /\ pc' = "ready"
    /\ resp' = NoResp
    /\ UNCHANGED <<env, scraper, trace>>

\* lines 519-521: no archive came back
PackageFailed ==
    /\ pc = "returned"
    /\ ~(scraper.zip_path # "" /\ scraper.zip_path \in DOMAIN scraper.files)
    /\ session_state' = [session_state EXCEPT !.extraction_in_progress = FALSE]
    /\ page' = Page("failed", TRUE, 0, None, 0)
    /\ pc' = "ready"
    /\ resp' = NoResp
    /\ UNCHANGED <<env, scraper, trace>>

\* lines 400-446, 523-529: a write of the archive builder raises (the disk is full, the
\* directory is gone); main() catches the exception and removes the directory
WriteFilesRaised ==
    /\ pc = "write_files"
    /\ session_state' = [session_state EXCEPT !.extraction_in_progress = FALSE]
    /\ scraper' = NoScraper
    /\ page' = Page("failed", TRUE, 0, None, 0)
    /\ pc' = "ready"
    /\ UNCHANGED <<env, resp, trace>>

-----------------------------------------------------------------------------
Next ==
    \/ RunLogin
    \/ RunComplete
    \/ RunExtract
    \/ RunSearch
    \/ \E password \in Passwords : PasswordEntered(password)
    \/ password_entered
    \/ LogoutClick
    \/ StartAgainClick
    \/ \E search_term \in SearchTerms \cup {""} : SearchClick(search_term)
    \/ ClearResultsClick
    \/ \E i \in 1..2 : ExtractDataClick(i)
    \/ \E company_id \in CompanyIds \cup {""} : DirectEntryClick(company_id)
    \/ TestApiConnection
    \/ GetCompanyProfile
    \/ GetOfficers
    \/ GetPsc
    \/ GetFilingHistory
    \/ ScanPage
    \/ ScanReturn
    \/ DownloadPdf
    \/ WriteFiles
    \/ StoreResult
    \/ PackageFailed
    \/ WriteFilesRaised

Spec == Init /\ [][Next]_vars

\* lines 344-451, 506-521: create_zip_file and the lines of main() around it run in one
\* invocation, every request of which has a timeout: a step of the pipeline that can be
\* taken is taken
Pipeline ==
    \/ TestApiConnection \/ GetCompanyProfile \/ GetOfficers \/ GetPsc \/ GetFilingHistory
    \/ ScanPage \/ ScanReturn \/ DownloadPdf \/ WriteFiles \/ StoreResult \/ PackageFailed

LiveSpec == Spec /\ WF_vars(Pipeline)

-----------------------------------------------------------------------------
(* The document locator alone, against a site with more pages than the cap: *)
(* get_pdf_links_scraping is entered after the four record fetches           *)

ScanInit ==
    /\ env = [SCRAPER_PASSWORD |-> "secret", COMPANIES_HOUSE_API_KEY |-> "key",
              site_pages |-> max_pages + 1, site_docs |-> max_pages + MaxSiteDocs,
              site_mix |-> TRUE]
    /\ \E company_id \in CompanyIds :
          /\ session_state = StartExtraction(Put(Defaults, "password_correct", TRUE), company_id)
          /\ scraper = [NewScraper(company_id) EXCEPT
                            !.company_profile = ProfileJson(company_id),
                            !.officers_data = OfficersJson, !.psc_data = PscJson,
                            !.filing_history_data = FilingJson, !.page_num = 1]
          /\ trace = <<Get_(CompanyUrl(company_id)), Get_(CompanyUrl(company_id)),
                       Get_(CompanyUrl(company_id) \o "/officers"), Sleep(6),
                       Get_(CompanyUrl(company_id) \o "/persons-with-significant-control"),
                       Get_(CompanyUrl(company_id) \o "/filing-history"), Sleep(6)>>
    /\ page = Page("extracting", TRUE, 0, None, 0)
    /\ pc = "get_pdf_links_scraping"
    /\ resp = NoResp

ScanNext == ScanPage \/ ScanReturn

ScanSpec == ScanInit /\ [][ScanNext]_vars

-----------------------------------------------------------------------------
(* One extraction against a site whose listing never ends: every page has a link to  *)
(* the next one. The registry gives one answer to every request of the extraction,   *)
(* and the site serves the documents of its odd pages only.                          *)

TermInit ==
    /\ \E registry \in {"200", "401", "raise"} :
          env = [SCRAPER_PASSWORD |-> "secret", COMPANIES_HOUSE_API_KEY |-> "key",
                 site_pages |-> max_pages + 1, site_docs |-> max_pages + MaxSiteDocs,
                 site_mix |-> TRUE, registry |-> registry]
    /\ \E company_id \in CompanyIds :
          /\ session_state = StartExtraction(Put(Defaults, "password_correct", TRUE), company_id)
          /\ scraper = NewScraper(company_id)
    /\ page = Page("extracting", TRUE, 0, None, 0)
    /\ pc = "test_api_connection"
    /\ resp = NoResp
    /\ trace = <<>>

\* the answer of the registry to the request of the step
RegistryAnswers == resp'.status = env.registry

\* the download of the step succeeded if and only if its link is of an odd page
DocumentServed ==
    (Len(scraper'.pdf_files) > Len(scraper.pdf_files))
        <=> (scraper.pdf_links[scraper.i + 1].page % 2 = 1)

TermNext ==
    \/ TestApiConnection /\ RegistryAnswers
    \/ GetCompanyProfile /\ RegistryAnswers
    \/ GetOfficers /\ RegistryAnswers
    \/ GetPsc /\ RegistryAnswers
    \/ GetFilingHistory /\ RegistryAnswers
    \/ ScanPage
    \/ ScanReturn
    \/ DownloadPdf /\ DocumentServed
    \/ WriteFiles
    \/ StoreResult
    \/ PackageFailed
    \/ WriteFilesRaised

\* every request has a timeout (lines 116, 174, 216) and the steps between two requests
\* are finite: a step that can be taken is taken
TermSpec == TermInit /\ [][TermNext]_vars /\ WF_vars(TermNext)

-----------------------------------------------------------------------------
(* The locator against a listing of one page, for every form of hyperlink *)

LinksInit ==
    /\ \E body \in SeqsUpTo(LinkForms, MaxAnchors) :
          env = [SCRAPER_PASSWORD |-> "secret", COMPANIES_HOUSE_API_KEY |-> "key",
                 site_pages |-> 1, site_docs |-> MaxAnchors, site_mix |-> TRUE,
                 body |-> body]
    /\ \E company_id \in CompanyIds :
          /\ session_state = StartExtraction(Put(Defaults, "password_correct", TRUE), company_id)
          /\ scraper = [NewScraper(company_id) EXCEPT !.page_num = 1]
    /\ page = Page("extracting", TRUE, 0, None, 0)
    /\ pc = "get_pdf_links_scraping"
    /\ resp = NoResp
    /\ trace = <<>>

\* lines 169-209: the iteration of the loop for the page env.body, served with a 200
ScanListedPage ==
    /\ pc = "get_pdf_links_scraping"
    /\ scraper' = ScanStep(scraper, "200", env.body).sc
    /\ pc' = IF ScanStep(scraper, "200", env.body).goes_on
             THEN "get_pdf_links_scraping" ELSE "scan_return"
    /\ resp' = Observed(scraper.page_num, "200", env.body, resp.streak)
    /\ trace' = trace \o ScanTrace(scraper, "200", env.body)
    /\ UNCHANGED <<env, session_state, page>>

LinksSpec == LinksInit /\ [][ScanListedPage]_vars

-----------------------------------------------------------------------------
(* The profile renderer alone, for profiles with and without their optional fields *)

\* the values a profile may hold under each optional key; <<>> stands for the key's
\* absence
ProfileFields ==
    [type : {<<>>, <<"plc">>},
     jurisdiction : {<<>>, <<"england-wales">>},
     registered_office_address :
        {<<>>, <<EmptyDict>>,
         <<[address_line_1 |-> "Tesco House", address_line_2 |-> "", postal_code |-> "AL7 1GA"]>>,
         <<[locality |-> "Welwyn Garden City", country |-> "England", care_of |-> "Legal"]>>},
     sic_codes : {<<>>, << <<>> >>, << <<"47110", "47300">> >>},
     accounts : {<<>>, <<[next_due |-> "2025-08-31", last_accounts |-> [made_up_to |-> "2024-02-24"]]>>},
     confirmation_statement : {<<>>, <<[next_due |-> "2025-06-14"]>>}]

\* the profile of the company `id` with the optional fields that `fields` gives a value
ProfileData(id, fields) ==
    [key \in {"company_name", "company_number", "company_status"}
                \cup {k \in DOMAIN fields : fields[k] # <<>>} |->
        IF key \in DOMAIN fields THEN fields[key][1] ELSE ProfileJson(id)[key]]

OverviewInit ==
    /\ env = [SCRAPER_PASSWORD |-> "secret", COMPANIES_HOUSE_API_KEY |-> "key",
              site_pages |-> 0, site_docs |-> 0, site_mix |-> FALSE]
    /\ session_state = StartExtraction(Put(Defaults, "password_correct", TRUE), "00006245")
    /\ \E fields \in ProfileFields :
          scraper = [NewScraper("00006245") EXCEPT
                        !.company_profile = ProfileData("00006245", fields)]
    /\ page = Page("extracting", TRUE, 0, None, 0)
    /\ pc = "format_company_profile"
    /\ resp = NoResp
    /\ trace = <<>>

\* lines 402-406: the profile is rendered and written
FormatCompanyProfile ==
    /\ pc = "format_company_profile"
    /\ scraper' = [scraper EXCEPT
          !.files = Put(scraper.files,
                        join(scraper.temp_dir, scraper.company_id \o "_overview.txt"),
                        format_company_profile(scraper.company_profile))]
    /\ pc' = "overview_written"
    /\ UNCHANGED <<env, session_state, page, resp, trace>>

OverviewSpec == OverviewInit /\ [][FormatCompanyProfile]_vars

-----------------------------------------------------------------------------
(* The filing-history renderer alone, for bodies of every length up to MaxItems *)

\* the k-th filing of the register: filings differ in the optional fields they carry
Filing(k) ==
    LET base == [date |-> "2024-01-" \o str(k), description |-> "filing " \o str(k),
                 type |-> "AA"]
    IN  CASE k % 3 = 0 -> Put(Put(base, "pages", k),
                              "links", [document_metadata |-> "https://document-api/" \o str(k)])
          [] k % 3 = 1 -> Put(base, "category", "accounts")
          [] OTHER -> Put(base, "action_date", "2023-12-31")

\* the total_count of a body, when it has one
TotalCounts == {<<>>, <<0>>, <<16>>, <<100>>}

\* a body with n filings, the first of which is the filing `first` of the register
FilingData(n, total, first) ==
    LET items == [k \in 1..n |-> Filing(first + k - 1)]
    IN  IF total = <<>> THEN [items |-> items]
        ELSE [items |-> items, total_count |-> total[1]]

FormatInit ==
    /\ env = [SCRAPER_PASSWORD |-> "secret", COMPANIES_HOUSE_API_KEY |-> "key",
              site_pages |-> 0, site_docs |-> 0, site_mix |-> FALSE]
    /\ session_state = StartExtraction(Put(Defaults, "password_correct", TRUE), "00006245")
    /\ \E n \in 0..MaxItems, total \in TotalCounts, first \in 1..3 :
          scraper = [NewScraper("00006245") EXCEPT
                        !.filing_history_data = FilingData(n, total, first),
                        !.pdf_log = "\n=== PDF DOCUMENTS ===\n\n"]
    /\ page = Page("extracting", TRUE, 0, None, 0)
    /\ pc = "format_filing_history"
    /\ resp = NoResp
    /\ trace = <<>>

\* lines 420-424: the filing history is rendered and written, with the download log
FormatFilingHistory ==
    /\ pc = "format_filing_history"
    /\ scraper' = [scraper EXCEPT
          !.files = Put(scraper.files,
                        join(scraper.temp_dir, scraper.company_id \o "_filing_history.txt"),
                        format_filing_history(scraper.filing_history_data) \o scraper.pdf_log)]
    /\ pc' = "formatted"
    /\ UNCHANGED <<env, session_state, page, resp, trace>>

FormatNext == FormatFilingHistory

FormatSpec == FormatInit /\ [][FormatNext]_vars

-----------------------------------------------------------------------------
(* Properties of the session *)

\* lines 470, 474: the two flags of a finished extraction
IsComplete(ss) ==
    Get(ss, "extraction_in_progress", FALSE) /\ Get(ss, "extraction_complete", FALSE)

\* the stage of a session: Error while the error of lines 520, 524 is on the page,
\* otherwise read from the keys as lines 470, 474 and 563 read them
Stage(ss, pg) ==
    IF pg.view = "failed" THEN "Error"
    ELSE IF Get(ss, "extraction_in_progress", FALSE)
    THEN IF Get(ss, "extraction_complete", FALSE) THEN "Complete" ELSE "Extracting"
    ELSE IF Get(ss, "search_term", "") # "" THEN "ResultsShown" ELSE "Idle"

Rank(stage) ==
    CASE stage = "Idle" -> 0
      [] stage = "ResultsShown" -> 2
      [] stage = "Extracting" -> 3
      [] stage \in {"Complete", "Error"} -> 4

\* an explicit reset: Logout, Start Again or Clear Results, each followed by a rerun
ResetStep ==
    /\ pc = "ready" /\ pc' = "rerun"
    /\ trace' = <<>>
    /\ \/ page.logout /\ session_state' = EmptyDict
       \/ /\ page.view = "complete"
          /\ session_state' = InitKeys(Keep(session_state, {"password_correct"}))
       \/ /\ page.view = "search"
          /\ session_state' = [session_state EXCEPT !.search_results = <<>>,
                                                    !.search_term = "",
                                                    !.last_search_term = ""]

\* the run that follows a failed extraction: extraction_in_progress was cleared with the
\* error (lines 521, 525), so the search tabs are drawn, with the session's other keys
RetryStep ==
    /\ page.view = "failed" /\ pc = "ready"
    /\ ~session_state.extraction_in_progress /\ ~session_state.extraction_complete
    /\ page'.view = "search"
    /\ session_state'.search_results = session_state.search_results
    /\ session_state'.search_term = session_state.search_term
    /\ session_state'.selected_company = session_state.selected_company

\* C1: once the session is Complete, every further run of main() issues no request,
\* constructs no scraper, and offers exactly the stored archive bytes and file count;
\* the session leaves Complete only by a reset (Start Again or Logout).
C1_CompleteIsIdempotent ==
    [][IsComplete(session_state) =>
          \/ /\ IsComplete(session_state')
             /\ trace' = <<>>
             /\ scraper' = NoScraper
             /\ session_state'.zip_data = session_state.zip_data
             /\ session_state'.file_count = session_state.file_count
             /\ pc' = "ready"
             /\ page' = Page("complete", TRUE, 0, session_state.zip_data,
                             session_state.file_count)
          \/ ResetStep]_vars

\* a Complete session whose download is on the page, with an archive of text files
C1_Witness ==
    /\ IsComplete(session_state)
    /\ pc = "ready" /\ page.view = "complete"
    /\ page.data = session_state.zip_data /\ page.data # None
    /\ page.file_count = Len(page.data) /\ page.file_count > 5
    /\ trace = <<>>

C3_PreCheckGatesEverything ==
    [][/\ pc = "test_api_connection" =>
             /\ trace = <<>>
             /\ trace' = <<Get_(CompanyUrl(scraper.company_id))>>
             /\ IF resp'.status \in {"200", "404"}
                THEN pc' = "get_company_profile_api"
                ELSE /\ pc' = "returned"
                     /\ scraper'.zip_path = "" /\ scraper'.count = 0
                     /\ scraper'.files = EmptyDict
       /\ pc' = "get_company_profile_api" =>
             pc = "test_api_connection" /\ resp'.status \in {"200", "404"}
       /\ pc \in {"get_company_profile_api", "get_officers_api", "get_psc_api",
                  "get_filing_history_api", "get_pdf_links_scraping", "download_pdf"} =>
             trace # <<>> /\ trace[1] = Get_(CompanyUrl(scraper.company_id))
       /\ pc = "returned" /\ Len(trace) = 1 =>
             /\ trace' = trace
             /\ scraper'.files = EmptyDict
             /\ page'.view = "failed"
             /\ session_state'.zip_data = None
             /\ ~session_state'.extraction_complete]_vars

\* a run that ended after a failed pre-check: one request, nothing written, no archive
C3_Witness ==
    /\ page.view = "failed" /\ Len(trace) = 1
    /\ scraper.temp_dir # "" /\ scraper.files = EmptyDict
    /\ session_state.zip_data = None /\ ~session_state.extraction_complete

\* the exception handler of lines 523-529 ran: a write of the archive builder raised
WriteRaised == page.view = "failed" /\ scraper = NoScraper

\* C4: with the credential configured and the pre-check passed, create_zip_file returns
\* an archive whatever the record fetches, the listing fetches and the downloads
\* answered, and the extraction ends Complete with the archive in the session (a write to
\* the local disk that raises is not an outcome of a request and is set apart).
C4_AlwaysAnArchive ==
    /\ [](pc = "returned" /\ Len(trace) > 1 =>
             scraper.zip_path # "" /\ scraper.zip_path \in DOMAIN scraper.files)
    /\ (pc = "get_company_profile_api")
          ~> (\/ /\ IsComplete(session_state)
                 /\ session_state.zip_data # None
                 /\ Len(session_state.zip_data) >= 5
              \/ WriteRaised)

\* a Complete session whose four record fetches and whose only download all failed
C4_Witness ==
    /\ IsComplete(session_state) /\ pc = "rerun"
    /\ session_state.file_count = 5
    /\ session_state.zip_data[1].data = Rendered.overview[EmptyDict]
    /\ session_state.zip_data[2].data = Rendered.officers[EmptyDict]
    /\ session_state.zip_data[3].data = Rendered.psc[EmptyDict]
    /\ \E k \in 1..Len(trace) : trace[k] = Get_(web_base \o DocRel.href)

\* C5: every link the locator returned is passed to download_pdf exactly once, in the
\* locator's order, whatever the earlier downloads answered, and the archive is built
\* after the last of them.
C5_EachLinkOnceInOrder ==
    /\ pc = "download_pdf" =>
          /\ scraper.pdf_links = scraper.all_pdf_links
          /\ scraper.i < Len(scraper.pdf_links)
          /\ scraper.attempts = SubSeq(scraper.pdf_links, 1, scraper.i)
    /\ pc = "write_files" \/ (pc = "returned" /\ Len(trace) > 1) =>
          /\ scraper.pdf_links = scraper.all_pdf_links
          /\ scraper.attempts = scraper.pdf_links
    /\ pc = "returned" /\ Len(trace) > 1 => scraper.zip_path # ""

\* three links, of which the first two downloads failed and the third succeeded
C5_Witness ==
    /\ pc = "write_files"
    /\ Len(scraper.pdf_links) = 3 /\ scraper.attempts = scraper.pdf_links
    /\ scraper.pdf_files = <<join(scraper.temp_dir, PdfName(3, scraper.company_id))>>

\* the downloads that succeeded: download_pdf wrote the file
Downloaded(sc) ==
    {k \in 1..Len(sc.pdf_links) : join(sc.temp_dir, PdfName(k, sc.company_id)) \in DOMAIN sc.files}

\* C6: the archive of a successful extraction holds the five text files, then one entry
\* for each document whose download succeeded and none for a failed one; the count
\* returned, and stored in the session, is 5 plus the number of successful downloads.
C6_ArchiveContents ==
    /\ pc = "returned" /\ scraper.zip_path # "" =>
          LET archive == scraper.files[scraper.zip_path]
              id == scraper.company_id
              names == [k \in 1..Len(archive) |-> archive[k].name]
          IN  /\ Len(archive) = 5 + Cardinality(Downloaded(scraper))
              /\ scraper.count = Len(archive)
              /\ SubSeq(names, 1, 5) = <<id \o "_overview.txt", id \o "_officers.txt",
                                         id \o "_psc.txt", id \o "_filing_history.txt",
                                         id \o "_summary.txt">>
              /\ {names[k] : k \in 6..Len(archive)}
                    = {PdfName(k, id) : k \in Downloaded(scraper)}
              /\ \A k \in 1..Len(archive) :
                    archive[k].data = scraper.files[join(scraper.temp_dir, archive[k].name)]
    /\ IsComplete(session_state) =>
          /\ session_state.file_count = Len(session_state.zip_data)
          /\ session_state.file_count >= 5

\* three links, one failed download: seven entries
C6_Witness ==
    /\ pc = "returned" /\ scraper.zip_path # ""
    /\ Len(scraper.pdf_links) = 3
    /\ Cardinality(Downloaded(scraper)) = 2
    /\ scraper.count = 7

-----------------------------------------------------------------------------
(* Properties of the document locator *)

\* the positions of the trace that are fetches of listing pages
ListingFetches ==
    {k \in 1..Len(trace) :
        \E p \in 1..(max_pages + 1) : trace[k] = Get_(ListingUrl(scraper.company_id, p))}

\* C7: the locator fetches at most 20 listing pages, never page 21, whatever the site
\* serves; when each of 20 pages has one candidate link and a "next" link it returns
\* exactly 20 links.
C7_PageCap ==
    /\ Cardinality(ListingFetches) <= 20
    /\ \A k \in 1..Len(trace) : trace[k] # Get_(ListingUrl(scraper.company_id, 21))
    /\ pc = "scan_return" /\ resp.streak = 20 =>
          /\ Len(scraper.all_pdf_links) = 20
          /\ \A k \in 1..20 : scraper.all_pdf_links[k].page = k

\* the scan returns after page 20 of a site that has a page 21
C7_Witness ==
    /\ pc = "scan_return" /\ resp.streak = 20 /\ resp.next
    /\ env.site_pages > 20
    /\ Cardinality(ListingFetches) = 20
    /\ Len(scraper.all_pdf_links) = 20

\* C8: after a listing page with no candidate link the locator fetches no further page
\* and returns the links of the earlier pages, whatever continuation signals the page
\* carries.
C8_EmptyPageStops ==
    [][pc = "get_pdf_links_scraping" /\ resp'.status = "200" /\ resp'.cands = 0 =>
          /\ pc' = "scan_return"
          /\ scraper'.all_pdf_links = scraper.all_pdf_links
          /\ trace' = Append(trace, Get_(ListingUrl(scraper.company_id, scraper.page_num)))]_vars

\* page 2 had no candidate link but a "next" link and a link to page 3
C8_Witness ==
    /\ pc = "scan_return" /\ resp.page = 2 /\ resp.status = "200" /\ resp.cands = 0
    /\ resp.next /\ resp.param
    /\ scraper.all_pdf_links # <<>>

\* C9: when the fetch of page k answers a non-success status or raises, or processing
\* page k raises, the locator returns the links accumulated so far, with every
\* candidate link of the pages before k in order; the extraction goes on with them.
C9_PartialResultsKept ==
    [][/\ pc = "get_pdf_links_scraping" =>
             /\ Len(scraper'.all_pdf_links) >= Len(scraper.all_pdf_links)
             /\ SubSeq(scraper'.all_pdf_links, 1, Len(scraper.all_pdf_links))
                   = scraper.all_pdf_links
             /\ resp'.status = "200" /\ ~resp'.raised =>
                   /\ Len(scraper'.all_pdf_links) = Len(scraper.all_pdf_links) + resp'.cands
                   /\ \A k \in (Len(scraper.all_pdf_links) + 1)..Len(scraper'.all_pdf_links) :
                         scraper'.all_pdf_links[k].page = resp'.page
             /\ resp'.status # "200" =>
                   pc' = "scan_return" /\ scraper'.all_pdf_links = scraper.all_pdf_links
             /\ resp'.raised => pc' = "scan_return"
       /\ pc = "scan_return" =>
             /\ scraper'.pdf_links = scraper.all_pdf_links
             /\ pc' = IF scraper.all_pdf_links = <<>> THEN "write_files" ELSE "download_pdf"]_vars

\* the fetch of page 2 raised; the links of page 1 are returned
C9_Witness ==
    /\ pc = "scan_return" /\ resp.page = 2 /\ resp.status = "raise"
    /\ scraper.all_pdf_links # <<>>
    /\ \A k \in 1..Len(scraper.all_pdf_links) : scraper.all_pdf_links[k].page = 1

\* C10 as stated: after page n < 20 with a candidate link, page n + 1 is fetched if and
\* only if the page has a link whose text contains "next", a link whose target encodes
\* page n + 1, or a link whose text is a plain number greater than n.
C10_ContinuesIffSignal ==
    [][pc = "get_pdf_links_scraping" /\ resp'.status = "200" /\ resp'.cands >= 1
          /\ resp'.page < 20 =>
          ((pc' = "get_pdf_links_scraping" /\ scraper'.page_num = scraper.page_num + 1)
              <=> (resp'.next \/ resp'.param \/ resp'.higher))]_vars

-----------------------------------------------------------------------------
(* Properties of the pipeline's requests *)

\* lines 116, 124, 136, 146, 156: the URLs of the structured API that an extraction asks
ApiUrls(company_id) ==
    {CompanyUrl(company_id), CompanyUrl(company_id) \o "/officers",
     CompanyUrl(company_id) \o "/persons-with-significant-control",
     CompanyUrl(company_id) \o "/filing-history"}

\* the positions of the trace that are requests to the structured API
ApiRequests ==
    {k \in 1..Len(trace) : \E url \in ApiUrls(scraper.company_id) : trace[k] = Get_(url)}

\* the tenths of a second the client sleeps between positions a and c of the trace: the
\* least time that passes between the two requests, when every response arrives at once
RECURSIVE Slept(_, _, _)
Slept(tr, a, c) ==
    IF a >= c THEN 0
    ELSE (IF tr[a][1] = "sleep" THEN tr[a][2] ELSE 0) + Slept(tr, a + 1, c)

\* C11 as stated: no three requests of one extraction to the structured API are issued
\* within one second, however quickly the responses arrive.
C11_TwoRequestsPerSecond ==
    scraper.company_id # "" =>
        \A a, b, c \in ApiRequests : a < b /\ b < c => Slept(trace, a, c) >= 10

-----------------------------------------------------------------------------
(* Properties of a failed extraction *)

-----------------------------------------------------------------------------
(* Properties of the resets *)

\* a click on "Start Again" (lines 486-500) or on "Clear Results" (lines 557-561): the
\* click that reruns the script from the download page or from the search tabs, without
\* a request and without starting an extraction, and is not a logout
ResetToIdle ==
    /\ pc = "ready" /\ pc' = "rerun"
    /\ page.view \in {"complete", "search"}
    /\ trace' = <<>>
    /\ session_state' # EmptyDict
    /\ ~Get(session_state', "extraction_in_progress", FALSE)

\* the authorization flag is what it was
SamePassword == Get(session_state', "password_correct", FALSE)
                    = Get(session_state, "password_correct", FALSE)

-----------------------------------------------------------------------------
(* Properties of the access control *)

\* the positions of the script inside create_zip_file
PipelinePcs ==
    {"test_api_connection", "get_company_profile_api", "get_officers_api", "get_psc_api",
     "get_filing_history_api", "get_pdf_links_scraping", "scan_return", "download_pdf",
     "write_files", "returned"}

\* C14: no request is sent, no scraper is constructed and no step of the pipeline is
\* taken unless password_correct is true in the session; password_correct becomes true
\* only in the callback, when the value typed into the password field equals the
\* configured, non-empty SCRAPER_PASSWORD; with no password configured it is never true.
C14_PasswordGatesEverything ==
    [][/\ \/ trace' # trace /\ trace' # <<>>
          \/ scraper' # scraper /\ scraper' # NoScraper
          \/ pc' \in PipelinePcs
          => PasswordCorrect(session_state) /\ PasswordCorrect(session_state')
       /\ PasswordCorrect(session_state') /\ ~PasswordCorrect(session_state) =>
             /\ pc = "password_entered"
             /\ env.SCRAPER_PASSWORD # ""
             /\ "password" \in DOMAIN session_state
             /\ session_state.password = env.SCRAPER_PASSWORD
       /\ env.SCRAPER_PASSWORD = "" => ~PasswordCorrect(session_state')]_vars

\* the right password was typed and removed from the session; an extraction is running
C14_Witness ==
    /\ PasswordCorrect(session_state)
    /\ "password" \notin DOMAIN session_state
    /\ pc = "get_company_profile_api" /\ Len(trace) = 1

-----------------------------------------------------------------------------
(* Properties of the data flow *)

\* the requests of the three stages that send requests
ApiGets == {Get_(url) : url \in UNION {ApiUrls(id) : id \in CompanyIds}}

ListingGets == {Get_(ListingUrl(id, p)) : id \in CompanyIds, p \in ListingPages}

DocumentGets ==
    {Get_(Links[p][link][1].url) :
        <<p, link>> \in {x \in ListingPages \X UNION {PageAnchors(q) : q \in ListingPages} :
                            x[2] \in DOMAIN Links[x[1]] /\ Links[x[1]][x[2]] # <<>>}}

\* the positions of the trace `tr` that hold a request of the set `gets`
Positions(tr, gets) == {k \in 1..Len(tr) : tr[k] \in gets}

\* the files the archive builder writes
BuilderFiles(sc) ==
    {join(sc.temp_dir, sc.company_id \o suffix) :
        suffix \in {"_overview.txt", "_officers.txt", "_psc.txt", "_filing_history.txt",
                    "_summary.txt"}}
        \cup {join(sc.temp_dir, "company_" \o sc.company_id \o "_data.zip")}

\* C15: within one extraction the stages run in the order Registry Client, Document
\* Locator, Download Manager, Archive Builder: a listing page is fetched only after the
\* pre-check and the four record fetches, a document is requested only after the scan
\* has returned its list and no listing page is fetched after it, the text files and
\* the archive exist only after the last download attempt and no request follows them,
\* and the session takes the archive's bytes and becomes Complete only in the step
\* after create_zip_file has returned the archive.
C15_StagesInOrder ==
    [][/\ \A b \in Positions(trace', ListingGets) :
             /\ \E id \in CompanyIds :
                    /\ \A url \in ApiUrls(id) : \E a \in 1..(b - 1) : trace'[a] = Get_(url)
                    /\ Cardinality({a \in 1..(b - 1) : trace'[a] = Get_(CompanyUrl(id))}) = 2
             /\ Cardinality(Positions(SubSeq(trace', 1, b), ApiGets)) = 5
       /\ \A b \in Positions(trace', DocumentGets) :
             /\ \A a \in Positions(trace', ApiGets \cup ListingGets) : a < b
             /\ Positions(trace', ListingGets) # {}
       /\ Positions(trace', DocumentGets) \ Positions(trace, DocumentGets) # {} =>
             /\ pc = "download_pdf"
             /\ scraper.pdf_links = scraper.all_pdf_links
             /\ scraper'.pdf_links = scraper.pdf_links
       /\ DOMAIN scraper'.files \cap BuilderFiles(scraper') # {} =>
             /\ scraper'.i = Len(scraper'.pdf_links)
             /\ Cardinality(Positions(trace', DocumentGets)) = Len(scraper'.pdf_links)
             /\ pc' = "returned"
       /\ DOMAIN scraper.files \cap BuilderFiles(scraper) # {} =>
             trace' = trace /\ scraper' = NoScraper
       /\ IsComplete(session_state') /\ ~IsComplete(session_state) =>
             /\ pc = "returned"
             /\ scraper.zip_path \in DOMAIN scraper.files
             /\ session_state'.zip_data = scraper.files[scraper.zip_path]
             /\ session_state'.zip_data # None
       /\ Get(session_state', "zip_data", None) # Get(session_state, "zip_data", None)
             /\ Get(session_state', "zip_data", None) # None
             => IsComplete(session_state') /\ ~IsComplete(session_state)]_vars

\* a finished extraction that went through every stage: two listing pages were fetched
\* and three documents requested
C15_Witness ==
    /\ IsComplete(session_state) /\ pc = "rerun"
    /\ Cardinality(Positions(trace, ListingGets)) = 2
    /\ Cardinality(Positions(trace, DocumentGets)) = 3

-----------------------------------------------------------------------------
(* Properties of the archive *)

\* the positions of sc.pdf_links whose download succeeded, in ascending order
RECURSIVE Successes(_, _)
Successes(sc, k) ==
    IF k > Len(sc.pdf_links) THEN <<>>
    ELSE (IF k \in Downloaded(sc) THEN <<k>> ELSE <<>>) \o Successes(sc, k + 1)

\* C16: the archive's entries are {id}_overview.txt, {id}_officers.txt, {id}_psc.txt,
\* {id}_filing_history.txt, {id}_summary.txt, in this order, followed by the documents
\* that were downloaded, in the order of their download; each entry is named by the
\* last component of the path of the file it holds.
C16_EntryOrder ==
    pc = "returned" /\ scraper.zip_path # "" =>
        LET archive == scraper.files[scraper.zip_path]
            id == scraper.company_id
            done == Successes(scraper, 1)
            texts == <<id \o "_overview.txt", id \o "_officers.txt", id \o "_psc.txt",
                       id \o "_filing_history.txt", id \o "_summary.txt">>
            names == texts \o [j \in 1..Len(done) |-> PdfName(done[j], id)]
        IN  /\ [k \in 1..Len(archive) |-> archive[k].name] = names
            /\ \A k \in 1..Len(names) :
                  /\ scraper.temp_dir \o "/" \o names[k] \in DOMAIN scraper.files
                  /\ archive[k].data = scraper.files[scraper.temp_dir \o "/" \o names[k]]
                  /\ \A j \in 1..Len(names[k]) : Char(names[k], j) # "/"
            /\ \A j \in 1..Len(done) :
                  archive[5 + j].data = DocBytes(scraper.pdf_links[done[j]].url)

\* three links on two pages; the first download failed, the other two succeeded
C16_Witness ==
    /\ pc = "returned" /\ scraper.zip_path # ""
    /\ Successes(scraper, 1) = <<2, 3>>
    /\ scraper.pdf_links[3].page = 2
    /\ Len(scraper.files[scraper.zip_path]) = 7

\* the sequence `names` has no element twice
Distinct(names) == \A j, k \in 1..Len(names) : names[j] = names[k] => j = k

\* C17 as stated, n being the document's place among the documents stored: the n-th
\* document stored is filing_document_{n}_{id}.pdf.
C17_NumberedByDownloadOrder ==
    \A n \in 1..Len(scraper.pdf_files) :
        scraper.pdf_files[n] = join(scraper.temp_dir, PdfName(n, scraper.company_id))

\* C17: a document is stored as filing_document_{n}_{id}.pdf, n being its place among
\* the located links, which is the number of download attempts made up to and including
\* its own, failed ones counted; no two documents are stored under one name or get one
\* archive entry name, no document replaces a file stored before, and no document's
\* name is the name of one of the five text files.
C17_NumberedByAttempt ==
    [][/\ scraper'.pdf_files # scraper.pdf_files /\ scraper'.pdf_files # <<>> =>
             LET n == Len(scraper'.attempts)
                 pdf_path == join(scraper.temp_dir, PdfName(n, scraper.company_id))
             IN  /\ pc = "download_pdf"
                 /\ scraper'.attempts = Append(scraper.attempts, scraper.pdf_links[n])
                 /\ scraper'.pdf_files = Append(scraper.pdf_files, pdf_path)
                 /\ pdf_path \notin DOMAIN scraper.files
                 /\ scraper'.files = Put(scraper.files, pdf_path,
                                         DocBytes(scraper.pdf_links[n].url))
       /\ Distinct(scraper'.pdf_files)
       /\ Distinct([k \in 1..Len(scraper'.pdf_files) |-> BaseNames[scraper'.pdf_files[k]]])
       /\ \A k \in 1..Len(scraper'.pdf_files) :
             BaseNames[scraper'.pdf_files[k]] \notin TextNames(scraper'.company_id)
       /\ scraper'.zip_path # "" =>
             Distinct([k \in 1..Len(scraper'.files[scraper'.zip_path]) |->
                          scraper'.files[scraper'.zip_path][k].name])]_vars

\* the first download failed and the second succeeded: the only document stored is
\* number 2
C17_Witness ==
    /\ pc = "download_pdf" /\ scraper.i = 2
    /\ scraper.pdf_files = <<join(scraper.temp_dir, PdfName(2, scraper.company_id))>>

-----------------------------------------------------------------------------
(* Properties of the text files *)

\* line 385
LogHeader == "\n=== PDF DOCUMENTS ===\n\n"

\* the numbers of the set S, in ascending order
Sorted(S) == [j \in 1..Cardinality(S) |-> CHOOSE k \in S : Cardinality({i \in S : i <= k}) = j]

\* str.splitlines, for line breaks written "\n"
SplitLines(text) ==
    LET ends == Sorted({k \in 1..Len(text) : Char(text, k) = "\n"}
                           \cup (IF text # "" /\ Char(text, Len(text)) # "\n"
                                 THEN {Len(text) + 1} ELSE {}))
    IN  [j \in 1..Len(ends) |-> SubSeq(text, IF j = 1 THEN 1 ELSE ends[j - 1] + 1, ends[j] - 1)]

endswith(s, suffix) ==
    Len(suffix) <= Len(s) /\ SubSeq(s, Len(s) - Len(suffix) + 1, Len(s)) = suffix

\* line 420: what follows the rendered filing history in the filing-history text file
LogSection(sc) ==
    LET file == sc.files[join(sc.temp_dir, sc.company_id \o "_filing_history.txt")]
    IN  SubSeq(file, Len(Rendered.filing_history[sc.filing_history_data]) + 1, Len(file))

\* C18: the download log appended to the filing-history text file is its header and
\* then exactly one line for each located document, in attempt order: the success line
\* of a download that succeeded, a failure line for one that failed, each ending with
\* the page number of the link; with no located document it is the header alone.
C18_OneLinePerDocument ==
    pc = "returned" /\ scraper.zip_path # "" =>
        LET section == LogSection(scraper)
            lines == SplitLines(SubSeq(section, Len(LogHeader) + 1, Len(section)))
        IN  /\ startswith(section, LogHeader)
            /\ Len(lines) = Len(scraper.pdf_links)
            /\ \A k \in 1..Len(scraper.pdf_links) :
                  LET page_num == " (Page " \o str(scraper.pdf_links[k].page) \o ")"
                  IN  IF k \in Downloaded(scraper)
                      THEN lines[k] = "(v) Downloaded: " \o PdfName(k, scraper.company_id)
                                          \o page_num
                      ELSE startswith(lines[k], "(x) Failed: ") /\ endswith(lines[k], page_num)

\* the four record fetches of create_zip_file: the position of the call, the position
\* after it, the attribute that holds the record, the resource requested, the body of a
\* success, the text file, and the text written for an empty record (lines 227, 262,
\* 293, 324)
RecordFetches(id) ==
    {[pc |-> "get_company_profile_api", next |-> "get_officers_api",
      record |-> "company_profile", url |-> CompanyUrl(id), json |-> ProfileJson(id),
      file |-> id \o "_overview.txt", kind |-> "overview",
      no_data |-> "=== COMPANY OVERVIEW ===\n\nNo data available from API\n"],
     [pc |-> "get_officers_api", next |-> "get_psc_api",
      record |-> "officers_data", url |-> CompanyUrl(id) \o "/officers", json |-> OfficersJson,
      file |-> id \o "_officers.txt", kind |-> "officers",
      no_data |-> "=== OFFICERS INFORMATION ===\n\nNo officers data available\n"],
     [pc |-> "get_psc_api", next |-> "get_filing_history_api",
      record |-> "psc_data", url |-> CompanyUrl(id) \o "/persons-with-significant-control",
      json |-> PscJson, file |-> id \o "_psc.txt", kind |-> "psc",
      no_data |-> "=== PERSONS WITH SIGNIFICANT CONTROL ===\n\nNo PSC data available\n"],
     [pc |-> "get_filing_history_api", next |-> "get_pdf_links_scraping",
      record |-> "filing_history_data", url |-> CompanyUrl(id) \o "/filing-history",
      json |-> FilingJson, file |-> id \o "_filing_history.txt", kind |-> "filing_history",
      no_data |-> "=== FILING HISTORY ===\n\nNo filing history available\n"]}

\* the text file of the record fetch f, in the directory of the scraper sc
RecordFile(sc, f) == sc.files[join(sc.temp_dir, f.file)]

\* C19 as stated: the text file of a record whose fetch failed holds its section header
\* and its "no data" placeholder and nothing else.
C19_FailedRecordFileIsPlaceholder ==
    pc = "returned" /\ scraper.zip_path # "" =>
        \A f \in RecordFetches(scraper.company_id) :
            scraper[f.record] = EmptyDict => RecordFile(scraper, f) = f.no_data

\* C19: each of the four record fetches, whatever the others answered, goes on to the
\* next call of create_zip_file; it leaves an empty record when the response is not a
\* 200 or the request raised and the parsed body otherwise, and changes no other
\* record. In the archive's directory the text of an empty record is its section
\* header and its "no data" placeholder, the text of a fetched record is the rendering
\* of its body, and the filing-history file holds that text followed by the download
\* log, which is never empty.
C19_FetchesIndependent ==
    [][/\ \A f \in RecordFetches(scraper.company_id) :
             pc = f.pc =>
                /\ pc' = f.next
                /\ trace' # trace /\ SubSeq(trace', 1, Len(trace) + 1) = Append(trace, Get_(f.url))
                /\ scraper'[f.record] = IF resp'.status = "200" THEN f.json ELSE EmptyDict
                /\ \A g \in RecordFetches(scraper.company_id) \ {f} :
                      scraper'[g.record] = scraper[g.record]
                /\ page' = page /\ session_state' = session_state
       /\ pc' = "returned" /\ scraper'.zip_path # "" =>
             \A f \in RecordFetches(scraper'.company_id) :
                LET text == IF scraper'[f.record] = EmptyDict THEN f.no_data
                            ELSE Rendered[f.kind][f.json]
                IN  /\ scraper'[f.record] \in {EmptyDict, f.json}
                    /\ RecordFile(scraper', f)
                          = IF f.kind = "filing_history" THEN text \o scraper'.pdf_log ELSE text
                    /\ startswith(scraper'.pdf_log, LogHeader)]_vars

\* the profile and the filing-history fetches failed, the other two succeeded, and a
\* document was located
C19_Witness ==
    /\ pc = "returned" /\ scraper.zip_path # ""
    /\ scraper.company_profile = EmptyDict /\ scraper.filing_history_data = EmptyDict
    /\ scraper.officers_data = OfficersJson /\ scraper.psc_data = PscJson
    /\ scraper.pdf_links # <<>>

\* the lines of `lines` that start with `prefix`, in their order
LinesWith(lines, prefix) ==
    LET at == Sorted({k \in 1..Len(lines) : startswith(lines[k], prefix)})
    IN  [j \in 1..Len(at) |-> lines[at[j]]]

\* the filing history as rendered into the scraper's text file, line by line
FilingLines(sc) ==
    LET file == sc.files[join(sc.temp_dir, sc.company_id \o "_filing_history.txt")]
    IN  SplitLines(SubSeq(file, 1, Len(file) - Len(sc.pdf_log)))

\* C20: format_filing_history renders exactly min(15, n) filing blocks for a body of n
\* items: block k, headed "Filing k:", k counting from 1, shows item k of the body; the
\* "Total Filings" line shows the body's total_count (0 when the body has none),
\* whatever the number of blocks.
C20_FirstFifteenAndSourceTotal ==
    pc = "formatted" =>
        LET data == scraper.filing_history_data
            items == data["items"]
            m == IF Len(items) < 15 THEN Len(items) ELSE 15
            lines == FilingLines(scraper)
        IN  /\ LinesWith(lines, "Filing ") = [k \in 1..m |-> "Filing " \o str(k) \o ":"]
            /\ LinesWith(lines, "  Date: ") = [k \in 1..m |-> "  Date: " \o items[k].date]
            /\ LinesWith(lines, "  Description: ")
                  = [k \in 1..m |-> "  Description: " \o items[k].description]
            /\ Len(LinesWith(lines, "  Document Available: ")) = m
            /\ LinesWith(lines, "Total Filings: ")
                  = <<"Total Filings: " \o str(IF "total_count" \in DOMAIN data
                                                THEN data.total_count ELSE 0)>>
            /\ lines[3] = LinesWith(lines, "Total Filings: ")[1]

\* a body of more than 15 items whose total_count is neither its length nor 15
C20_Witness ==
    /\ pc = "formatted"
    /\ Len(scraper.filing_history_data["items"]) = MaxItems
    /\ "total_count" \in DOMAIN scraper.filing_history_data
    /\ scraper.filing_history_data.total_count = 100
    /\ scraper.filing_history_data["items"][1] = Filing(2)

\* C21: the overview of a non-empty profile has a "Registered Office Address" line
\* exactly when the profile has the field registered_office_address, right after the
\* "Jurisdiction" line; without the field nothing stands in the line's place: the
\* "Jurisdiction" line ends the text or is followed by the empty line that opens the
\* next section, and the text has no empty line but the one after the title and the one
\* before each section.
C21_AddressLineIffField ==
    pc = "overview_written" =>
        LET data == scraper.company_profile
            file == scraper.files[join(scraper.temp_dir, scraper.company_id \o "_overview.txt")]
            lines == SplitLines(file)
            has == "registered_office_address" \in DOMAIN data
            sections == {"Nature of Business (SIC):", "=== ACCOUNTS INFORMATION ===",
                         "=== CONFIRMATION STATEMENT ==="}
        IN  /\ In("Registered Office Address", file) <=> has
            /\ Len(LinesWith(lines, "Registered Office Address: ")) = (IF has THEN 1 ELSE 0)
            /\ startswith(lines[8], "Jurisdiction: ")
            /\ has => startswith(lines[9], "Registered Office Address: ")
            /\ \A k \in 3..Len(lines) :
                  lines[k] = "" => k < Len(lines) /\ lines[k + 1] \in sections
            /\ ~has /\ Len(lines) > 8 => lines[9] = "" /\ lines[10] \in sections
            /\ Char(file, Len(file)) = "\n" /\ SubSeq(file, Len(file) - 1, Len(file)) # "\n\n"

\* a profile without an address whose text goes on after the "Jurisdiction" line
C21_Witness ==
    /\ pc = "overview_written"
    /\ "registered_office_address" \notin DOMAIN scraper.company_profile
    /\ "jurisdiction" \in DOMAIN scraper.company_profile
    /\ "accounts" \in DOMAIN scraper.company_profile
    /\ "sic_codes" \notin DOMAIN scraper.company_profile

-----------------------------------------------------------------------------
(* Properties of the run summary *)

\* the run summary in the scraper's directory, line by line
SummaryLines(sc) == SplitLines(sc.files[join(sc.temp_dir, sc.company_id \o "_summary.txt")])

\* the listing pages requested in the trace `tr` for the company `id`
PagesFetched(tr, id) ==
    {p \in ListingPages : \E k \in 1..Len(tr) : tr[k] = Get_(ListingUrl(id, p))}

\* C22: the "Pages Scraped" value of the run summary is the highest number of a listing
\* page the locator requested in the extraction.
C22_PagesScrapedIsHighestFetched ==
    pc = "returned" /\ scraper.zip_path # "" =>
        LET fetched == PagesFetched(trace, scraper.company_id)
        IN  /\ fetched # {}
            /\ LinesWith(SummaryLines(scraper), "Pages Scraped: ")
                  = <<"Pages Scraped: "
                        \o str(CHOOSE p \in fetched : \A q \in fetched : q <= p)>>

\* the entries of the archive `archive` whose name ends with `suffix`
EntriesNamed(archive, suffix) == {k \in 1..Len(archive) : endswith(archive[k].name, suffix)}

\* C23: the run summary's "Files Created: N text files" gives the number of text files
\* in the archive, and its "PDFs Downloaded" value the number of documents in the
\* archive.
C23_SummaryCountsArchive ==
    pc = "returned" /\ scraper.zip_path # "" =>
        LET archive == scraper.files[scraper.zip_path]
            lines == SummaryLines(scraper)
        IN  /\ LinesWith(lines, "PDFs Downloaded: ")
                  = <<"PDFs Downloaded: " \o str(Cardinality(EntriesNamed(archive, ".pdf")))>>
            /\ LinesWith(lines, "Files Created: ")
                  = <<"Files Created: " \o str(Cardinality(EntriesNamed(archive, ".txt")))
                        \o " text files">>

-----------------------------------------------------------------------------
(* Properties of the temporary directory *)

\* C24: the run that starts an extraction makes the scraper's temporary directory, the
\* only one of that extraction: create_zip_file makes no other and works in it
\* throughout. On success the directory is removed in the step that has read the
\* archive's bytes from it into the session, and from then on the session holds these
\* bytes, and the page offers them for download, while it stays Complete.
C24_OneDirectoryRemovedAfterRead ==
    [][/\ pc' = "test_api_connection" =>
             /\ pc \in {"rerun", "ready"}
             /\ scraper'.dirs = 1 /\ scraper'.temp_dir # "" /\ scraper'.files = EmptyDict
       /\ pc \in PipelinePcs /\ scraper' # NoScraper =>
             scraper'.dirs = 1 /\ scraper'.temp_dir = scraper.temp_dir
       /\ scraper'.dirs <= 1
       /\ IsComplete(session_state') /\ ~IsComplete(session_state) =>
             /\ pc = "returned"
             /\ scraper.zip_path = join(scraper.temp_dir,
                                        "company_" \o scraper.company_id \o "_data.zip")
             /\ session_state'.zip_data = scraper.files[scraper.zip_path]
             /\ scraper' = NoScraper
       /\ scraper' = NoScraper /\ scraper # NoScraper /\ pc = "returned" =>
             IsComplete(session_state') /\ session_state'.zip_data # None
       /\ IsComplete(session_state) /\ IsComplete(session_state') =>
             /\ session_state'.zip_data = session_state.zip_data
             /\ scraper' = NoScraper
             /\ page'.view = "complete" => page'.data = session_state'.zip_data]_vars

\* the page of a finished extraction, drawn after the directory was removed
C24_Witness ==
    /\ IsComplete(session_state) /\ scraper = NoScraper
    /\ page.view = "complete" /\ page.data = session_state.zip_data
    /\ Len(session_state.zip_data) > 5

-----------------------------------------------------------------------------
(* Properties of the target *)

InProgress(ss) == Get(ss, "extraction_in_progress", FALSE)

\* C25: while extraction_in_progress is set, from the click that starts the extraction
\* on, selected_company keeps its value: it is the company the scraper works on, no
\* step that leaves the flag set changes it, and a step that changes or removes it is
\* Start Again or Logout; a failure clears the flag and leaves the value alone. While
\* the flag is set no search result, search term or other target is stored.
C25_TargetFixedWhileInProgress ==
    [][/\ InProgress(session_state') /\ ~InProgress(session_state) =>
             /\ "selected_company" \in DOMAIN session_state'
             /\ ~Get(session_state', "extraction_complete", FALSE)
       /\ pc' \in PipelinePcs =>
             /\ InProgress(session_state')
             /\ scraper'.company_id = session_state'.selected_company
       /\ InProgress(session_state) =>
             /\ InProgress(session_state') =>
                   /\ session_state'.selected_company = session_state.selected_company
                   /\ Get(session_state', "search_results", <<>>)
                         = Get(session_state, "search_results", <<>>)
                   /\ Get(session_state', "search_term", "")
                         = Get(session_state, "search_term", "")
             /\ ~InProgress(session_state') =>
                   \/ /\ "selected_company" \in DOMAIN session_state'
                      /\ session_state'.selected_company = session_state.selected_company
                      /\ page'.view = "failed"
                   \/ /\ "selected_company" \notin DOMAIN session_state'
                      /\ Ready("complete") \/ LogoutClick]_vars

\* the second candidate of a search was selected and its extraction has finished
C25_Witness ==
    /\ IsComplete(session_state) /\ page.view = "complete"
    /\ session_state.selected_company = "SC534841"
    /\ Len(session_state.search_results) = 2

-----------------------------------------------------------------------------
(* Properties of the name search *)

\* the keys of the session a search has no business with
OtherKeys == {"selected_company", "zip_data", "file_count", "extraction_in_progress",
              "extraction_complete", "password_correct"}

\* line 549: the request of a search for `term`
SearchGet(term) == Get_(api_base \o "/search/companies?q=" \o term)

\* a click on "Search Companies" with `term` stored the term and a result list, touched
\* no other key and asked for the rerun that shows the results
SearchStored(term) ==
    /\ pc' = "rerun" /\ page'.view # "stopped"
    /\ trace' = <<SearchGet(term)>>
    /\ session_state'.search_term = term
    /\ session_state'.search_results \in SearchItems
    /\ Keep(session_state', OtherKeys) = Keep(session_state, OtherKeys)
    /\ ~InProgress(session_state')

\* the run after a search draws the search page with one button per stored result, none
\* for an empty list, and changes nothing the search stored
ResultsShown ==
    (pc = "rerun" /\ \E term \in SearchTerms : trace = <<SearchGet(term)>>) =>
        /\ pc' = "ready" /\ page'.view = "search"
        /\ page'.extract_buttons = Len(session_state.search_results)
        /\ session_state'.search_results = session_state.search_results
        /\ session_state'.search_term = session_state.search_term
        /\ Keep(session_state', OtherKeys) = Keep(session_state, OtherKeys)

\* C26 as stated: every click on "Search Companies" with a non-empty term stores the
\* result list and the term, changes no other key, and the next run shows the results.
\* Violated: without the API key the constructor of line 548 stops the run, nothing is
\* stored and the page shows the error of line 72.
C26_SearchAlwaysShowsResults ==
    [][/\ \A term \in SearchTerms : SearchClick(term) => SearchStored(term)
       /\ ResultsShown]_vars

\* C26: with the API key present, every click on "Search Companies" with a non-empty
\* term, whatever the registry answered, stores the result list and the term, leaves
\* selected_company, zip_data, file_count and the extraction flags as they were, and the
\* next run draws the search page with the stored results, zero of them included.
C26_SearchShowsResults ==
    [][/\ \A term \in SearchTerms :
             SearchClick(term) /\ env.COMPANIES_HOUSE_API_KEY # "" => SearchStored(term)
       /\ ResultsShown]_vars

\* a search made after a failed extraction returned nothing: the page shows no result,
\* and the company of the failed extraction is still selected
C26_Witness ==
    /\ pc = "ready" /\ page.view = "search" /\ page.extract_buttons = 0
    /\ session_state.search_term = "tesco" /\ session_state.search_results = <<>>
    /\ "selected_company" \in DOMAIN session_state

-----------------------------------------------------------------------------
(* Properties of the configuration *)

\* C27: without COMPANIES_HOUSE_API_KEY no request is ever sent and no step of the
\* pipeline is ever taken: a search or an extraction ends its run at the constructor,
\* no scraper and no directory exist, no archive and no file count are stored, and no
\* page past the error of line 72 is drawn.
C27_NoCredentialNoRequest ==
    env.COMPANIES_HOUSE_API_KEY = "" =>
        /\ trace = <<>>
        /\ pc \in {"rerun", "ready", "password_entered"}
        /\ scraper = NoScraper /\ resp = NoResp
        /\ Get(session_state, "zip_data", None) = None
        /\ Get(session_state, "file_count", 0) = 0
        /\ ~Get(session_state, "extraction_complete", FALSE)
        /\ Get(session_state, "search_results", <<>>) = <<>>
        /\ page.view \in {"none", "login", "search", "stopped"}

\* an extraction was started without the key and its run has stopped at the constructor
C27_Witness ==
    /\ env.COMPANIES_HOUSE_API_KEY = ""
    /\ pc = "ready" /\ page.view = "stopped"
    /\ InProgress(session_state) /\ session_state.selected_company = "SC534841"

-----------------------------------------------------------------------------
(* Properties of the logout *)

\* a session without the authorization flag holds nothing of an earlier one and is
\* outside the pipeline
LoggedOut(ss, pg, p, tr) ==
    /\ Get(ss, "search_results", <<>>) = <<>> /\ Get(ss, "search_term", "") = ""
    /\ "selected_company" \notin DOMAIN ss
    /\ Get(ss, "zip_data", None) = None /\ Get(ss, "file_count", 0) = 0
    /\ ~InProgress(ss) /\ ~Get(ss, "extraction_complete", FALSE)
    /\ p \notin PipelinePcs /\ tr = <<>>
    /\ pg.view \in {"none", "login", "stopped"} /\ ~pg.logout

\* C28: the Logout button is on every page of an authorized session; a click on it leaves
\* the session without any key, whatever it held, and asks for a rerun; the run that
\* follows draws the login form and no other widget; and from then until password_correct is set again no
\* search result, target, archive or file count is in the session, no request is sent
\* and no step of the pipeline is taken.
C28_LogoutDestroysSession ==
    [][/\ pc = "ready" /\ PasswordCorrect(session_state) => ENABLED LogoutClick
       /\ LogoutClick =>
             /\ PasswordCorrect(session_state)
             /\ DOMAIN session_state' = {}
             /\ pc' = "rerun" /\ page' = NoPage
       /\ pc = "rerun" /\ DOMAIN session_state = {} =>
             /\ pc' = "ready"
             /\ page'.view = IF env.SCRAPER_PASSWORD = "" THEN "stopped" ELSE "login"
             /\ session_state' = InitKeys(EmptyDict)
       /\ ~PasswordCorrect(session_state') =>
             LoggedOut(session_state', page', pc', trace')]_vars

\* the user logged out of a session whose extraction had failed before its archive was
\* written, and is at the login form again
C28_Witness ==
    /\ pc = "ready" /\ page.view = "login"
    /\ session_state = InitKeys(EmptyDict)
    /\ scraper # NoScraper

-----------------------------------------------------------------------------
(* Properties of the archive's content *)

\* ZipFile.read(name): the data of the entry of that name written last; None stands
\* for the KeyError of a name the archive has not
ZipRead(archive, name) ==
    LET ks == {k \in 1..Len(archive) : archive[k].name = name}
    IN  IF ks = {} THEN None ELSE archive[CHOOSE k \in ks : \A j \in ks : j <= k].data

\* C29: when create_zip_file returns, the archive has one entry for each of the five
\* text files and each document downloaded and no other, no two entries have one name,
\* and reading an entry by the base name of its file gives the text that was generated
\* for that file, or the body that was served for the link the document came from.
C29_ArchiveRoundTrip ==
    pc = "returned" /\ scraper.zip_path # "" =>
        LET archive == scraper.files[scraper.zip_path]
            texts == TextFiles(scraper)
        IN  /\ Len(texts) = 5
            /\ Len(archive) = Len(texts) + Len(scraper.pdf_files)
            /\ \A j, k \in 1..Len(archive) : archive[j].name = archive[k].name => j = k
            /\ \A k \in 1..Len(texts) :
                  ZipRead(archive, basename(texts[k].path)) = texts[k].data
            /\ \A n \in 1..Len(scraper.attempts) :
                  LET pdf_path == join(scraper.temp_dir, PdfName(n, scraper.company_id))
                  IN  IF \E k \in 1..Len(scraper.pdf_files) : scraper.pdf_files[k] = pdf_path
                      THEN ZipRead(archive, basename(pdf_path))
                              = DocBytes(scraper.attempts[n].url)
                      ELSE ZipRead(archive, basename(pdf_path)) = None

\* an archive with the first and the third of three documents, the second having failed
C29_Witness ==
    /\ pc = "returned" /\ scraper.zip_path # ""
    /\ Len(scraper.attempts) = 3
    /\ scraper.pdf_files = <<join(scraper.temp_dir, PdfName(1, scraper.company_id)),
                             join(scraper.temp_dir, PdfName(3, scraper.company_id))>>
    /\ Len(scraper.files[scraper.zip_path]) = 7

-----------------------------------------------------------------------------
(* Properties of the locator's links *)

AsciiLetters == "abcdefghijklmnopqrstuvwxyz"

IsAsciiLetter(c) == \E i \in 1..Len(AsciiLetters) : Char(AsciiLetters, i) = c

\* an absolute URL: a scheme of letters, in either case, then "://"
IsAbsoluteUrl(href) ==
    \E j \in 2..Len(href) :
        /\ j + 2 <= Len(href) /\ SubSeq(href, j, j + 2) = "://"
        /\ \A i \in 1..(j - 1) : IsAsciiLetter(Char(lower(href), i))

\* a target relative to the site's root
IsSiteRelative(href) == href # "" /\ Char(href, 1) = "/"

\* the markers of a document link, in either case
IsMarked(link) ==
    In("pdf", lower(link.href)) \/ In("document", lower(link.href))
        \/ In("view pdf", lower(link.text))

\* the URLs of the links of `body` that are marked and site-relative or absolute, in the
\* order of the page, a site-relative one after the site base
RECURSIVE DocumentUrls(_)
DocumentUrls(body) ==
    IF body = <<>> THEN <<>>
    ELSE (IF IsMarked(Head(body)) /\ IsSiteRelative(Head(body).href)
          THEN <<web_base \o Head(body).href>>
          ELSE IF IsMarked(Head(body)) /\ IsAbsoluteUrl(Head(body).href)
          THEN <<Head(body).href>>
          ELSE <<>>) \o DocumentUrls(Tail(body))

\* C30 as stated: the links returned for a page are, in the order of the page, its
\* hyperlinks that carry a marker and whose target is site-relative or absolute, and the
\* URL of every one of them is absolute. Violated: line 185 takes a target for absolute
\* when it begins with the four letters "http", so "httpdocs/report.pdf" is returned
\* as it is and "HTTPS://files.example/C.pdf" is dropped.
C30_LinksAreMarkedAndAbsolute ==
    pc = "scan_return" =>
        /\ [k \in 1..Len(scraper.all_pdf_links) |-> scraper.all_pdf_links[k].url]
              = DocumentUrls(env.body)
        /\ \A k \in 1..Len(scraper.all_pdf_links) : IsAbsoluteUrl(scraper.all_pdf_links[k].url)

-----------------------------------------------------------------------------
(* Properties of the delays *)

\* C31: in the trace of an extraction a sleep of one second stands between any two
\* requests for listing pages and between any two requests for documents, and it is
\* the entry right after the earlier of the two; a request for a document is followed
\* by the sleep whether the download succeeded or failed.
C31_DelayBetweenFetches ==
    /\ \A a, b \in Positions(trace, ListingGets) :
          a < b => trace[a + 1] = Sleep(10) /\ a + 1 < b
    /\ \A a, b \in Positions(trace, DocumentGets) :
          a < b => trace[a + 1] = Sleep(10) /\ a + 1 < b
    /\ \A a \in Positions(trace, DocumentGets) :
          a < Len(trace) /\ trace[a + 1] = Sleep(10)

\* two listing pages were fetched and three documents asked for, the second of which
\* was not served
C31_Witness ==
    /\ pc = "write_files"
    /\ Cardinality(Positions(trace, ListingGets)) = 2
    /\ Cardinality(Positions(trace, DocumentGets)) = 3
    /\ scraper.pdf_files = <<join(scraper.temp_dir, PdfName(1, scraper.company_id)),
                             join(scraper.temp_dir, PdfName(3, scraper.company_id))>>

-----------------------------------------------------------------------------
(* Properties of the page tags *)

\* the page tags of a list of links
PageTags(pdf_links) == [k \in 1..Len(pdf_links) |-> pdf_links[k].page]

\* the tags start at 1, go up by one at most from a link to the next, and end at 20 at
\* most
Contiguous(tags) ==
    /\ tags # <<>> => tags[1] = 1
    /\ \A k \in 2..Len(tags) : tags[k] \in {tags[k - 1], tags[k - 1] + 1}
    /\ \A k \in 1..Len(tags) : 1 <= tags[k] /\ tags[k] <= max_pages

\* C32: in the list the locator builds and returns, the page tags start at 1, never
\* decrease, have no gap, and are between 1 and 20; the links of the page being
\* scanned, if it is not the first, follow a link of the page before it.
C32_PageTagsContiguous ==
    /\ Contiguous(PageTags(scraper.all_pdf_links))
    /\ pc \in {"get_pdf_links_scraping", "scan_return"} /\ scraper.all_pdf_links # <<>> =>
          scraper.all_pdf_links[Len(scraper.all_pdf_links)].page
              \in {scraper.page_num - 1, scraper.page_num}
    /\ pc \notin {"get_pdf_links_scraping", "scan_return"} =>
          Contiguous(PageTags(scraper.pdf_links))

\* the scan has returned one link of page 1 and two links of page 2
C32_Witness ==
    /\ pc = "scan_return"
    /\ PageTags(scraper.all_pdf_links) = <<1, 2, 2>>

-----------------------------------------------------------------------------
(* Properties of the session's keys *)

-----------------------------------------------------------------------------
(* Properties of the archive's owner *)

\* the names the archive builder gives the entries of the company `id`
EntryNames(id) == TextNames(id) \cup {PdfName(n, id) : n \in 1..MaxSiteDocs}

\* C34: whenever the session is Complete a company is selected and every entry of the
\* archive in zip_data carries that company's identifier in its name, the first being
\* its overview; the Complete page offers these bytes; and the step that makes the
\* session Complete takes the archive from the scraper of the selected company.
C34_ArchiveOfSelectedCompany ==
    [][/\ IsComplete(session_state') =>
             /\ "selected_company" \in DOMAIN session_state'
             /\ session_state'.zip_data # None
             /\ \A k \in 1..Len(session_state'.zip_data) :
                   session_state'.zip_data[k].name
                       \in EntryNames(session_state'.selected_company)
             /\ session_state'.zip_data[1].name
                   = session_state'.selected_company \o "_overview.txt"
             /\ page'.view = "complete" => page'.data = session_state'.zip_data
       /\ IsComplete(session_state') /\ ~IsComplete(session_state) =>
             /\ scraper.company_id = session_state.selected_company
             /\ session_state'.selected_company = session_state.selected_company
       /\ page'.data # None => IsComplete(session_state') /\ page'.view = "complete"]_vars

\* the Complete page of a company whose number was entered directly, with a document
C34_Witness ==
    /\ IsComplete(session_state) /\ page.view = "complete"
    /\ session_state.selected_company = "SC534841"
    /\ session_state.search_results = <<>>
    /\ Len(page.data) >= 6 /\ page.data[6].name = PdfName(1, "SC534841")

-----------------------------------------------------------------------------
(* Properties of the temporary directory *)

\* C35 as stated: when a run of main() has ended, no temporary directory of an
\* extraction exists, whether the extraction gave an archive or not. Violated: after a
\* failed pre-check create_zip_file returns (None, 0) and lines 519-521 show the error
\* without a call of cleanup(); the directory of line 507 stays.
C35_NoDirectoryLeft ==
    pc \in {"ready", "rerun"} => scraper.dirs = 0 /\ scraper.temp_dir = ""

-----------------------------------------------------------------------------
(* Properties of termination *)

\* C36: an extraction, also against a site whose listing never ends, asks for 20
\* listing pages at most, makes one download attempt for each link the scan returned
\* and none before the scan has returned, and ends: the session becomes Complete or
\* the run shows the failure.
C36_ExtractionTerminates ==
    /\ [](Cardinality(Positions(trace, ListingGets)) <= max_pages)
    /\ [](pc \in PipelinePcs =>
            Cardinality(Positions(trace, DocumentGets))
                = IF pc \in {"download_pdf", "write_files", "returned"} THEN scraper.i ELSE 0)
    /\ [](pc = "download_pdf" => scraper.i < Len(scraper.pdf_links))
    /\ [](pc = "write_files" => scraper.i = Len(scraper.pdf_links))
    /\ (pc \in PipelinePcs) ~> (IsComplete(session_state) \/ page.view = "failed")

\* the extraction is Complete after a scan of 20 pages and 20 download attempts
C36_Witness ==
    /\ IsComplete(session_state)
    /\ Cardinality(Positions(trace, ListingGets)) = max_pages
    /\ Cardinality(Positions(trace, DocumentGets)) = max_pages
    /\ session_state.file_count = 5 + max_pages \div 2

-----------------------------------------------------------------------------
(* The variant uk_company_scraper_hybrid-WORKING.py: no password, the API key in     *)
(* the source, a scan of the first listing page only, and one flag,                  *)
(* extraction_in_progress. A run of main() with the flag set is one step; the        *)
(* archive is represented by the names of its entries.                               *)

\* lines 493-499 of the variant: the keys created at the top of every run
WorkingDefaults == [search_results |-> <<>>, search_term |-> "", extraction_in_progress |-> FALSE]

WorkingInitKeys(d) ==
    [k \in DOMAIN d \cup DOMAIN WorkingDefaults |->
        IF k \in DOMAIN d THEN d[k] ELSE WorkingDefaults[k]]

\* lines 427-468 of the variant: the names of the text files, in the order written
WorkingTextNames(id) ==
    <<id \o "_overview.txt", id \o "_officers.txt", id \o "_psc.txt",
      id \o "_filing_history.txt", id \o "_summary.txt">>

\* lines 355-486 of the variant: create_zip_file for the company `id`, when the
\* pre-check ended with `check`, the listing page with `out` and `body`, the downloads
\* of the links whose numbers are in `served` succeeded, and the disk took the files
\* or not: the requests sent, and the archive or None
WorkingCreateZipFile(id, check, out, body, served, disk_ok) ==
    LET pdf_links == IF out = "200" THEN PagePdfLinks(body, 1) ELSE <<>>
        api == CompanyUrl(id)
        records == <<Get_(api), Get_(api \o "/officers"), Sleep(6),
                     Get_(api \o "/persons-with-significant-control"),
                     Get_(api \o "/filing-history"), Sleep(6)>>
        downloads == [j \in 1..(2 * Len(pdf_links)) |->
                         IF j % 2 = 1 THEN Get_(pdf_links[(j + 1) \div 2].url) ELSE Sleep(10)]
        pdf_files == [k \in 1..Cardinality(served) |-> PdfName(Sorted(served)[k], id)]
    IN  IF ~test_api_connection(check)
        THEN [trace |-> <<Get_(api)>>, zip_data |-> None, count |-> 0]
        ELSE [trace |-> <<Get_(api)>> \o records \o <<Get_(ListingUrl(id, 1))>> \o downloads,
              zip_data |-> IF disk_ok THEN WorkingTextNames(id) \o pdf_files ELSE None,
              count |-> IF disk_ok THEN 5 + Cardinality(served) ELSE 0]

\* the outcomes of one extraction of the variant
WorkingOutcomes(id) ==
    {WorkingCreateZipFile(id, check, out, body, served, disk_ok) :
        check \in ApiOutcomes, out \in WebOutcomes, disk_ok \in BOOLEAN,
        <<body, served>> \in
            {x \in SeqsUpTo(PageAnchors(1), MaxAnchors) \X SUBSET (1..MaxAnchors) :
                x[2] \subseteq 1..Len(PagePdfLinks(x[1], 1))}}

WorkingInit ==
    /\ env = [SCRAPER_PASSWORD |-> "", COMPANIES_HOUSE_API_KEY |-> "",
              site_pages |-> 1, site_docs |-> MaxAnchors, site_mix |-> TRUE]
    /\ session_state = EmptyDict
    /\ page = NoPage
    /\ pc = "rerun"
    /\ scraper = NoScraper
    /\ resp = NoResp
    /\ trace = <<>>

\* lines 506-568 of the variant: a run of main() with extraction_in_progress set. The
\* scraper is constructed and create_zip_file called before any button of the branch is
\* looked at; `click` is the button of the page that started the run, "none" for a run
\* started by st.rerun(), by the download button or by the host.
WorkingExtractRun(click) ==
    LET ss == WorkingInitKeys(session_state)
        company_id == Get(ss, "selected_company", "")
    IN  /\ ss.extraction_in_progress
        /\ \E x \in WorkingOutcomes(company_id) :
              /\ trace' = x.trace
              /\ IF x.zip_data = None
                 THEN /\ session_state' = [ss EXCEPT !.extraction_in_progress = FALSE]
                      /\ page' = Page("failed", FALSE, 0, None, 0)
                      /\ pc' = "ready"
                 ELSE IF click = "none"
                 THEN /\ session_state' = ss
                      /\ page' = Page("complete", FALSE, 0, x.zip_data, x.count)
                      /\ pc' = "ready"
                 ELSE /\ session_state' =
                            IF click = "another"
                            THEN Put([ss EXCEPT !.extraction_in_progress = FALSE],
                                     "selected_company", None)
                            ELSE Put([ss EXCEPT !.extraction_in_progress = FALSE,
                                                !.search_results = <<>>,
                                                !.search_term = ""],
                                     "selected_company", None)
                      /\ page' = NoPage
                      /\ pc' = "rerun"
        /\ UNCHANGED <<env, scraper, resp>>

\* lines 506-537 of the variant: the run after st.rerun(), or the run the host starts
\* when the download button of the page is clicked
WorkingRunExtract == Runnable /\ WorkingExtractRun("none")

\* lines 543-545 of the variant: "Search Another Company"
WorkingSearchAnotherClick == Ready("complete") /\ WorkingExtractRun("another")

\* lines 548-553 of the variant: "New Search"
WorkingNewSearchClick == Ready("complete") /\ WorkingExtractRun("new")

\* lines 570-651 of the variant: the search and direct-entry tabs
WorkingRunTabs ==
    LET ss == WorkingInitKeys(session_state)
    IN  /\ Runnable
        /\ ~ss.extraction_in_progress
        /\ session_state' = ss
        /\ page' = Page("search", FALSE, Len(ss.search_results), None, 0)
        /\ pc' = "ready"
        /\ trace' = <<>>
        /\ UNCHANGED <<env, scraper, resp>>

\* lines 584-596 of the variant: the "Search Companies" button
WorkingSearchClick(search_term) ==
    /\ Ready("search")
    /\ IF search_term = ""
       THEN /\ UNCHANGED session_state
            /\ page' = page
            /\ pc' = "ready"
            /\ trace' = <<>>
       ELSE /\ \E out \in ApiOutcomes, items \in SearchItems :
                  session_state' = [session_state EXCEPT
                                        !.search_results = search_companies(out, items),
                                        !.search_term = search_term]
            /\ page' = NoPage
            /\ pc' = "rerun"
            /\ trace' = <<Get_(api_base \o "/search/companies?q=" \o search_term)>>
    /\ UNCHANGED <<env, scraper, resp>>

\* lines 598-602 of the variant
WorkingClearResultsClick ==
    /\ Ready("search")
    /\ session_state' = [session_state EXCEPT !.search_results = <<>>, !.search_term = ""]
    /\ page' = NoPage
    /\ pc' = "rerun"
    /\ trace' = <<>>
    /\ UNCHANGED <<env, scraper, resp>>

\* lines 626-630 of the variant: the "Extract Data" button of candidate i
WorkingExtractDataClick(i) ==
    /\ Ready("search")
    /\ i \in 1..page.extract_buttons
    /\ session_state' =
          Put([session_state EXCEPT !.extraction_in_progress = TRUE], "selected_company",
              Get(session_state.search_results[i], "company_number", "Unknown"))
    /\ page' = NoPage
    /\ pc' = "rerun"
    /\ trace' = <<>>
    /\ UNCHANGED <<env, scraper, resp>>

\* lines 637-651 of the variant: the direct-entry tab
WorkingDirectEntryClick(company_id) ==
    /\ Ready("search")
    /\ IF company_id = ""
       THEN /\ UNCHANGED session_state
            /\ page' = page
            /\ pc' = "ready"
       ELSE /\ session_state' =
                  Put([session_state EXCEPT !.extraction_in_progress = TRUE],
                      "selected_company", company_id)
            /\ page' = NoPage
            /\ pc' = "rerun"
    /\ trace' = <<>>
    /\ UNCHANGED <<env, scraper, resp>>

WorkingNext ==
    \/ WorkingRunExtract
    \/ WorkingSearchAnotherClick
    \/ WorkingNewSearchClick
    \/ WorkingRunTabs
    \/ \E search_term \in SearchTerms \cup {""} : WorkingSearchClick(search_term)
    \/ WorkingClearResultsClick
    \/ \E i \in 1..2 : WorkingExtractDataClick(i)
    \/ \E company_id \in CompanyIds \cup {""} : WorkingDirectEntryClick(company_id)

WorkingSpec == WorkingInit /\ [][WorkingNext]_vars

\* C37 as stated: once a run of the variant has shown the archive of an extraction, a
\* further run of main() for the session sends no request. Violated: the variant has
\* no extraction_complete; extraction_in_progress stays set after the success, so the
\* run that a click on the download button starts constructs the scraper and calls
\* create_zip_file again.
C37_WorkingCompleteSendsNothing ==
    [][Ready("complete") => trace' = <<>>]_vars

====
